---- MODULE Spec2Model ----
(***************************************************************************)
(* State-machine model of invenio-sipstore's archivers.                    *)
(*                                                                         *)
(* Persistent state: the SIPFile and SIPMetadata tables (models.py; the    *)
(* rows of a SIP in the order the relationship lists them), the archive    *)
(* file system (one package directory per SIP) and the configured          *)
(* BagIt JSON schema.  Operations: SIP.attach_file (api.py),               *)
(* BagItArchiver.create_bagit_metadata and BagItArchiver.create            *)
(* (archivers/bagit_archiver.py), BaseArchiver.write_all_files             *)
(* (archivers/base_archiver.py).  The variable res holds the outcome of    *)
(* the last call: its arguments, the exception it ended with, the list it  *)
(* returned, the writes it made and the status messages it sent.           *)
(*                                                                         *)
(* Spec runs the BagIt archiver over two SIPs whose files are attached     *)
(* step by step; SpecWrite runs write_all_files over two SIPs with their   *)
(* files attached.                                                         *)
(*                                                                         *)
(* Representation choices:                                                 *)
(*  - a file-info dict is a TLA+ record; a key is present iff it is in the *)
(*    record's DOMAIN;                                                     *)
(*  - a checksum string is kept as the sequence of its tokens, the colon   *)
(*    being a token of its own: 'md5:ab' is <<"md5", ":", "ab">>;          *)
(*  - the JSON document stored in the 'bagit' SIPMetadata row is kept as   *)
(*    the dict json.loads gives back;                                      *)
(*  - md5 is an injective function of the hashed bytes;                    *)
(*  - a text is a string over ASCII and the one character U+00F3, written  *)
(*    "~"; a byte string is a string with one character per byte, the two  *)
(*    bytes C3 B3 of U+00F3 in UTF-8 written "^~".                         *)
(***************************************************************************)
EXTENDS Naturals, Integers, Sequences, FiniteSets, TLC

(***************************************************************************)
(* Bounds of the model.                                                    *)
(***************************************************************************)
MaxFiles == 3

SIPS == {1, 2}

\* values of datetime.now().strftime(...) seen by autogenerate_tags
Dates == {"2016-10-10_12:00:00:000000"}

(***************************************************************************)
(* Fixed environment: FileInstance rows, logical paths, metadata types.    *)
(***************************************************************************)
FileIds == {"f1", "f2"}
FilePaths == {"a.txt", "b.txt"}

FileSize(fid) ==
  CASE fid = "f1" -> 4
    [] fid = "f2" -> 11
    [] OTHER -> 10

FileBytes(fid) ==
  CASE fid = "f1" -> "test"
    [] fid = "f2" -> "test-second"
    [] OTHER -> "test-third"

Md5Hex(bytes) == "md5(" \o bytes \o ")"

\* FileInstance.checksum; f3 is kept on a storage that checksums with adler32
FileChecksum(fid) ==
  IF fid = "f3" THEN <<"adler32", ":", "0a1b2c3d">>
  ELSE <<"md5", ":", Md5Hex(FileBytes(fid))>>

bagit_metadata_type_name == "bagit"


SIPSTORE_ARCHIVER_METADATA_TYPES == {"json-test", "marcxml-test"}

TypeFormat(name) ==
  CASE name = "json-test" -> "json"
    [] name = "marcxml-test" -> "xml"
    [] name = "txt-test" -> "txt"
    [] OTHER -> "json"


VARIABLES sip_files, sip_metadata, sip_metadata_rows, disk, bagit_schema, sipfile_name_formatter, sip_table, status_receiver, creating, res

vars == <<sip_files, sip_metadata, sip_metadata_rows, disk, bagit_schema, sipfile_name_formatter, sip_table, status_receiver, creating, res>>

(***************************************************************************)
(* Generic helpers over sequences and dicts.                               *)
(***************************************************************************)
Max(S) == CHOOSE x \in S : \A y \in S : y <= x

RECURSIVE SumSizes(_)
SumSizes(seq) ==
  IF seq = <<>> THEN 0 ELSE seq[1].size + SumSizes(Tail(seq))

RECURSIVE JoinLines(_)
JoinLines(lines) ==
  IF lines = <<>> THEN ""
  ELSE IF Len(lines) = 1 THEN lines[1]
  ELSE lines[1] \o "\n" \o JoinLines(Tail(lines))

Orderings(S) ==
  {seq \in [1 .. Cardinality(S) -> S] :
     \A i, j \in 1 .. Cardinality(S) : seq[i] = seq[j] => i = j}

join(dir, name) == IF dir = "" THEN name ELSE dir \o "/" \o name

filesdir == "data/files"

metadatadir == "data/metadata"

NoSip == 0

NoResult ==
  [op |-> "none", sip |-> NoSip, created |-> FALSE, patch_of |-> NoSip,
   include_missing_files |-> FALSE, error |-> "none", again |-> FALSE,
   stored |-> {}, filesinfo |-> <<>>, files |-> <<>>, written |-> <<>>,
   events |-> <<>>, checksum |-> <<>>, value |-> "", iterable |-> "",
   n |-> <<>>, n_after |-> <<>>, chunks |-> <<>>]

\* The SIPs exist with their metadata rows (api.SIP.attach_metadata ran before
\* archival begins): SIP 1 carries a metadata row of an archived type, SIP 2
\* one of a type that is not archived; files are attached by attach_file.
InitialMetadata ==
  (1 :> ("json-test" :> "{\"title\": \"json 1\"}"))
    @@ (2 :> ("txt-test" :> "Title: TXT 2"))

\* the types of the rows of each SIP, in the order sip.metadata lists them
InitialMetadataRows == (1 :> <<"json-test">>) @@ (2 :> <<"txt-test">>)

\* the schema the application's SIPSTORE_DEFAULT_BAGIT_JSONSCHEMA names, given
\* by the keys it requires of a datafiles entry
BaseSchema == {"filename", "path", "size", "checksum"}

Schemas == {BaseSchema, BaseSchema \cup {"file_uuid"}}

Init ==
  /\ sip_files = [s \in SIPS |-> <<>>]
  /\ sip_metadata = InitialMetadata
  /\ sip_metadata_rows = InitialMetadataRows
  /\ disk = [s \in SIPS |-> <<>>]
  /\ bagit_schema \in Schemas
  /\ sipfile_name_formatter = "default"
  /\ sip_table = [s \in SIPS |-> [archivable |-> TRUE, archived |-> FALSE]]
  /\ status_receiver = [at |-> 0, how |-> "return"]
  /\ creating = <<>>
  /\ res = NoResult

(***************************************************************************)
(* Table sizes (rows over all SIPs), used to bound the attach operations.  *)
(***************************************************************************)
RECURSIVE SumOver(_, _)
SumOver(S, f) ==
  IF S = {} THEN 0
  ELSE LET x == CHOOSE y \in S : TRUE IN f[x] + SumOver(S \ {x}, f)

NumSIPFileRows == SumOver(SIPS, [s \in SIPS |-> Len(sip_files[s])])

(***************************************************************************)
(* api.SIP.attach_file.  The primary key (sip_id, filepath) of models.py   *)
(* is the guard.                                                           *)
(***************************************************************************)
attach_file(s, filepath, file_id) ==
  /\ NumSIPFileRows < MaxFiles
  /\ \A i \in 1 .. Len(sip_files[s]) : sip_files[s][i].filepath # filepath
  /\ sip_files' = [sip_files EXCEPT ![s] =
                     Append(@, [filepath |-> filepath, file_id |-> file_id])]
  /\ res' = [NoResult EXCEPT !.op = "attach"]
  /\ UNCHANGED <<sip_metadata, sip_metadata_rows, disk, bagit_schema,
                 sipfile_name_formatter,
                 sip_table,
                 status_receiver,
                 creating>>

(***************************************************************************)
(* BagItArchiver: reading the cached manifest record.                      *)
(***************************************************************************)
None == [none |-> TRUE]

\* a row with primary key (sip_id, type_id) is in the SIPMetadata table
SIPMetadataExists(s, type) == type \in DOMAIN sip_metadata[s]

get_bagit_metadata(s) ==
  IF SIPMetadataExists(s, bagit_metadata_type_name)
  THEN sip_metadata[s][bagit_metadata_type_name]
  ELSE None

get_bagit_metadata_json(s) ==
  LET bagit_meta == get_bagit_metadata(s)
  IN IF bagit_meta # None THEN bagit_meta ELSE None

_is_fetched(fi) == "fetched" \in DOMAIN fi /\ fi.fetched

\* checksum.split(':'): the fields between the colons
RECURSIVE split(_)
split(tokens) ==
  IF tokens = <<>> THEN <<"">>
  ELSE LET rest == split(Tail(tokens))
       IN IF Head(tokens) = ":" THEN <<"">> \o rest
          ELSE <<Head(tokens) \o rest[1]>> \o Tail(rest)

expected == "md5"

\* variant: only the prefix is compared
_get_checksum_prefix_only(checksum) ==
  LET fields == split(checksum)
  IN IF fields[1] # expected
     THEN [error |-> "AttributeError", value |-> ""]
     ELSE [error |-> "none",
           value |-> IF Len(fields) >= 2 THEN fields[2] ELSE ""]

_get_checksum(checksum) ==
  LET fields == split(checksum)
  IN IF fields[1] # expected \/ Len(fields) # 2
     THEN [error |-> "AttributeError", value |-> ""]
     ELSE [error |-> "none", value |-> fields[2]]

(***************************************************************************)
(* File-info of the archiver base class: one dict per SIPFile and one per  *)
(* allow-listed SIPMetadata, and the dict _save_file returns.              *)
(***************************************************************************)
getsyspath(s, filename) == "/archive/sip" \o ToString(s) \o "/" \o filename

SipFileInfo(s, sf) ==
  [file_uuid |-> sf.file_id,
   filename |-> join(filesdir, sf.filepath),
   path |-> getsyspath(s, join(filesdir, sf.filepath)),
   size |-> FileSize(sf.file_id),
   checksum |-> FileChecksum(sf.file_id)]

MetadataFilename(type) == join(metadatadir, type \o "." \o TypeFormat(type))

MetadataInfo(s, type) ==
  [filename |-> MetadataFilename(type),
   path |-> getsyspath(s, MetadataFilename(type)),
   size |-> Len(sip_metadata[s][type]),
   checksum |-> <<"md5", ":", Md5Hex(sip_metadata[s][type])>>]

ArchivedMetadataTypes(s) ==
  DOMAIN sip_metadata[s] \cap SIPSTORE_ARCHIVER_METADATA_TYPES

\* variant: every row passes
ArchivedMetadataRows_all(s) == sip_metadata_rows[s]

\* for m in self.sip.metadata: if m.type.name in m_names: the types of the
\* rows that pass the filter, in the order of the rows
ArchivedMetadataRows(s) ==
  LET InNames(type) == type \in SIPSTORE_ARCHIVER_METADATA_TYPES
  IN SelectSeq(sip_metadata_rows[s], InNames)

\* BaseArchiver.create(sipfiles=..., dry_run=...): the returned file list
BaseCreateInfo(s, sipfiles, morder) ==
  [i \in 1 .. Len(sipfiles) |-> SipFileInfo(s, sipfiles[i])]
    \o [i \in 1 .. Len(morder) |-> MetadataInfo(s, morder[i])]

\* BaseArchiver.create(sipfiles=..., dry_run=False): the writes it performs
BaseCreateWrites(s, sipfiles, morder) ==
  [i \in 1 .. Len(sipfiles) |->
     <<join(filesdir, sipfiles[i].filepath), FileBytes(sipfiles[i].file_id)>>]
    \o [i \in 1 .. Len(morder) |->
          <<MetadataFilename(morder[i]), sip_metadata[s][morder[i]]>>]

_save_file(s, filename, content) ==
  [filename |-> filename,
   path |-> getsyspath(s, filename),
   size |-> Len(content),
   checksum |-> <<"md5", ":", Md5Hex(content)>>]

ApplyWrites(d, writes) ==
  LET names == {writes[i][1] : i \in 1 .. Len(writes)}
      last(fn) == Max({i \in 1 .. Len(writes) : writes[i][1] = fn})
  IN [fn \in (DOMAIN d) \cup names |->
        IF fn \in names THEN writes[last(fn)][2] ELSE d[fn]]

(***************************************************************************)
(* BagItArchiver.create_bagit_metadata: the patch resolver.                *)
(***************************************************************************)
manifest_files_s(prev_files) ==
  {prev_files[i].file_uuid :
     i \in {j \in 1 .. Len(prev_files) : "file_uuid" \in DOMAIN prev_files[j]}}

sip_files_s(s) == {sip_files[s][i].file_id : i \in 1 .. Len(sip_files[s])}

\* dict((f['file_uuid'], f) for f in prev_files ...)[uuid]: the last entry of
\* prev_files with this id
id2mi(prev_files, uuid) ==
  prev_files[Max({i \in 1 .. Len(prev_files) :
                   /\ "file_uuid" \in DOMAIN prev_files[i]
                   /\ prev_files[i].file_uuid = uuid})]

\* dict((str(file.file.id), file) for file in self.sip.files)[uuid]
id2sf(s, uuid) ==
  sip_files[s][Max({i \in 1 .. Len(sip_files[s]) :
                     sip_files[s][i].file_id = uuid})]

\* variants of the resolver's set expressions, used to test the properties
fetched_uuids_all(manifest_s, sip_s, include_missing_files) == manifest_s

fetched_uuids_common(manifest_s, sip_s, include_missing_files) ==
  manifest_s \cap sip_s

fetched_uuids(manifest_s, sip_s, include_missing_files) ==
  IF include_missing_files THEN manifest_s ELSE manifest_s \cap sip_s

stored_uuids_current(manifest_s, sip_s) == sip_s

stored_uuids(manifest_s, sip_s) == sip_s \ manifest_s

\* variant: the base manifest's filename is kept even when the file is attached
FetchedInfo_base_filename(s, prev_files, uuid) ==
  ("fetched" :> TRUE) @@ id2mi(prev_files, uuid)

\* variant: the fetched entry points into the package of the current SIP
FetchedInfo_own_path(s, prev_files, uuid) ==
  ("path" :> getsyspath(s, id2mi(prev_files, uuid).filename))
    @@ ("fetched" :> TRUE) @@ id2mi(prev_files, uuid)

\* one iteration of the loop over fetched_uuids
FetchedInfo(s, prev_files, uuid) ==
  LET fi == id2mi(prev_files, uuid)
      filename == IF uuid \in sip_files_s(s)
                  THEN join(filesdir, id2sf(s, uuid).filepath)
                  ELSE fi.filename
  IN ("filename" :> filename) @@ ("fetched" :> TRUE) @@ fi

(***************************************************************************)
(* The BagIt tag files.                                                    *)
(***************************************************************************)
autogenerate_tags(files_info, now) ==
  <<<<"Bagging-Date", now>>,
    <<"Payload-Oxum",
      ToString(SumSizes(files_info)) \o "." \o ToString(Len(files_info))>>>>

get_fetch_file(files_info) ==
  LET idx == {i \in 1 .. Len(files_info) : _is_fetched(files_info[i])}
      sel == SelectSeq(files_info, _is_fetched)
  IN <<"fetch.txt",
       JoinLines([i \in 1 .. Len(sel) |->
          sel[i].path \o " " \o ToString(sel[i].size) \o " "
            \o sel[i].filename])>>

\* the exception the generator of get_manifest_file ends with
get_manifest_file_error(files_info) ==
  IF \E i \in 1 .. Len(files_info) :
       _get_checksum(files_info[i].checksum).error # "none"
  THEN "AttributeError" ELSE "none"

\* variant: fetched entries get no line
get_manifest_file_not_fetched(files_info) ==
  LET NotFetched(fi) == ~_is_fetched(fi)
      sel == SelectSeq(files_info, NotFetched)
  IN <<"manifest-md5.txt",
       JoinLines([i \in 1 .. Len(sel) |->
          _get_checksum(sel[i].checksum).value \o " " \o sel[i].filename])>>

get_manifest_file(files_info) ==
  <<"manifest-md5.txt",
    JoinLines([i \in 1 .. Len(files_info) |->
       _get_checksum(files_info[i].checksum).value \o " "
         \o files_info[i].filename])>>

get_bagit_file ==
  <<"bagit.txt", "BagIt-Version: 0.97\nTag-File-Character-Encoding: UTF-8">>

get_baginfo_file(tags) ==
  <<"bag-info.txt",
    JoinLines([i \in 1 .. Len(tags) |-> tags[i][1] \o ": " \o tags[i][2]])>>

\* variant: fetch.txt gets no line
get_tagmanifest_no_fetch(files_info) ==
  LET Listed(fi) == fi.filename # "" /\ fi.filename # "fetch.txt"
  IN <<"tagmanifest-md5.txt",
       get_manifest_file(SelectSeq(files_info, Listed))[2]>>

get_tagmanifest(files_info) ==
  LET HasName(fi) == fi.filename # ""
  IN <<"tagmanifest-md5.txt",
       get_manifest_file(SelectSeq(files_info, HasName))[2]>>

\* fi = self._save_file(fn, content, dry_run=True); fi['content'] = content
TagFileInfo(s, file) ==
  LET fi == _save_file(s, file[1], file[2])
  IN ("content" :> file[2]) @@ fi

\* variant: bag-info.txt is generated before the payload manifest
bagit_meta_files_info_first(s, sip_data_files, tags) ==
  LET first ==
        (IF \E i \in 1 .. Len(sip_data_files) : _is_fetched(sip_data_files[i])
         THEN <<TagFileInfo(s, get_fetch_file(sip_data_files))>>
         ELSE <<>>)
        \o <<TagFileInfo(s, get_baginfo_file(tags)),
             TagFileInfo(s, get_manifest_file(sip_data_files)),
             TagFileInfo(s, get_bagit_file)>>
  IN Append(first, TagFileInfo(s, get_tagmanifest(first)))

\* the loop over funcs: get_tagmanifest sees the entries appended before it
bagit_meta_files(s, sip_data_files, tags) ==
  LET first ==
        (IF \E i \in 1 .. Len(sip_data_files) : _is_fetched(sip_data_files[i])
         THEN <<TagFileInfo(s, get_fetch_file(sip_data_files))>>
         ELSE <<>>)
        \o <<TagFileInfo(s, get_manifest_file(sip_data_files)),
             TagFileInfo(s, get_bagit_file),
             TagFileInfo(s, get_baginfo_file(tags))>>
  IN Append(first, TagFileInfo(s, get_tagmanifest(first)))

\* variant: a base without a record counts as an empty manifest
prev_files_or_empty(patch_of) ==
  LET json == get_bagit_metadata_json(patch_of)
  IN IF json = None THEN [error |-> "none", value |-> <<>>]
     ELSE [error |-> "none", value |-> json.datafiles]

\* line 115: self.get_bagit_metadata_json(patch_of)['datafiles']; subscripting
\* None raises TypeError
prev_files(patch_of) ==
  LET json == get_bagit_metadata_json(patch_of)
  IN IF json = None THEN [error |-> "TypeError", value |-> <<>>]
     ELSE [error |-> "none", value |-> json.datafiles]

\* the sets the two loops of the patch resolver iterate over
FetchedSet(s, patch_of, include_missing_files) ==
  IF patch_of = NoSip THEN {}
  ELSE fetched_uuids(manifest_files_s(prev_files(patch_of).value),
                     sip_files_s(s), include_missing_files)

StoredSet(s, patch_of) ==
  IF patch_of = NoSip THEN {}
  ELSE stored_uuids(manifest_files_s(prev_files(patch_of).value),
                    sip_files_s(s))

\* the SIPFiles selected for writing (lines 111-114, 143-144); sorder is the
\* iteration order of the set stored_uuids
selected_sipfiles(s, patch_of, sorder) ==
  IF patch_of = NoSip THEN sip_files[s]
  ELSE [i \in 1 .. Len(sorder) |-> id2sf(s, sorder[i])]

\* the document assembled by create_bagit_metadata; forder and sorder are the
\* iteration orders of the sets fetched_uuids and stored_uuids, morder the
\* types of the archived metadata rows
bagit_metadata(s, patch_of, prev, forder, sorder, morder, now) ==
  LET fetched == [i \in 1 .. Len(forder) |-> FetchedInfo(s, prev, forder[i])]
      sipfiles == selected_sipfiles(s, patch_of, sorder)
      files_info == BaseCreateInfo(s, sipfiles, morder)
      sip_data_files == fetched \o files_info
      tags == autogenerate_tags(files_info, now)
  IN [datafiles |-> sip_data_files,
      bagitfiles |-> bagit_meta_files(s, sip_data_files, tags)]

\* jsonschema.validate against the configured schema
validate(doc, schema) ==
  /\ \A i \in 1 .. Len(doc.datafiles) : schema \subseteq DOMAIN doc.datafiles[i]
  /\ \A i \in 1 .. Len(doc.bagitfiles) :
       {"path", "size", "checksum"} \subseteq DOMAIN doc.bagitfiles[i]

\* variant: the row of an existing record is replaced
validate_and_upsert(s, doc, schema) ==
  IF ~validate(doc, schema)
  THEN [error |-> "ValidationError", inserted |-> FALSE, doc |-> doc]
  ELSE [error |-> "none", inserted |-> TRUE, doc |-> doc]

\* variant: the row is added first and the document validated afterwards
add_and_validate(s, doc, schema) ==
  IF SIPMetadataExists(s, bagit_metadata_type_name)
  THEN [error |-> "IntegrityError", inserted |-> FALSE, doc |-> doc]
  ELSE IF ~validate(doc, schema)
  THEN [error |-> "ValidationError", inserted |-> TRUE, doc |-> doc]
  ELSE [error |-> "none", inserted |-> TRUE, doc |-> doc]

\* lines 183-194: validate, then add the SIPMetadata row; the primary key
\* (sip_id, type_id) rejects a second row
validate_and_add(s, doc, schema) ==
  IF ~validate(doc, schema)
  THEN [error |-> "ValidationError", inserted |-> FALSE, doc |-> doc]
  ELSE IF SIPMetadataExists(s, bagit_metadata_type_name)
  THEN [error |-> "IntegrityError", inserted |-> FALSE, doc |-> doc]
  ELSE [error |-> "none", inserted |-> TRUE, doc |-> doc]

\* what one call of create_bagit_metadata computes
create_bagit_metadata_result(s, patch_of, include_missing_files, schema, forder, sorder, morder, now) ==
  LET prev == IF patch_of = NoSip THEN [error |-> "none", value |-> <<>>]
              ELSE prev_files(patch_of)
  IN IF prev.error # "none"
     THEN [error |-> prev.error, inserted |-> FALSE, doc |-> None,
           sipfiles |-> <<>>]
     ELSE LET doc == bagit_metadata(s, patch_of, prev.value, forder, sorder,
                                    morder, now)
          IN IF get_manifest_file_error(doc.datafiles) # "none"
             THEN [error |-> get_manifest_file_error(doc.datafiles),
                   inserted |-> FALSE, doc |-> None, sipfiles |-> <<>>]
             ELSE ("sipfiles" :> selected_sipfiles(s, patch_of, sorder))
                    @@ validate_and_add(s, doc, schema)

\* the content ids of the SIPFiles selected for writing
selected_ids(out) == {out.sipfiles[i].file_id : i \in 1 .. Len(out.sipfiles)}

\* variant: the record replaces the metadata entries of the SIP
add_bagit_metadata_alone(s, out) ==
  IF out.inserted
  THEN [sip_metadata EXCEPT ![s] = (bagit_metadata_type_name :> out.doc)]
  ELSE sip_metadata

add_bagit_metadata(s, out) ==
  IF out.inserted
  THEN [sip_metadata EXCEPT ![s] = (bagit_metadata_type_name :> out.doc) @@ @]
  ELSE sip_metadata

add_bagit_metadata_row(s, out) ==
  IF out.inserted
  THEN [sip_metadata_rows EXCEPT ![s] = Append(@, bagit_metadata_type_name)]
  ELSE sip_metadata_rows

create_bagit_metadata(s, patch_of, include_missing_files) ==
  \E forder \in Orderings(FetchedSet(s, patch_of, include_missing_files)),
     sorder \in Orderings(StoredSet(s, patch_of)),
     morder \in {ArchivedMetadataRows(s)},
     now \in Dates :
    \E out \in {create_bagit_metadata_result(
                  s, patch_of, include_missing_files, bagit_schema, forder,
                  sorder, morder, now)} :
       /\ sip_metadata' = add_bagit_metadata(s, out)
       /\ sip_metadata_rows' = add_bagit_metadata_row(s, out)
       /\ res' = IF out.error = "none"
                 THEN [NoResult EXCEPT !.op = "create_bagit_metadata",
                         !.sip = s, !.created = TRUE, !.patch_of = patch_of,
                         !.include_missing_files =
                            patch_of # NoSip /\ include_missing_files,
                         !.stored = selected_ids(out)]
                 ELSE [NoResult EXCEPT !.op = "create_bagit_metadata",
                         !.sip = s, !.patch_of = patch_of,
                         !.error = out.error]
       /\ UNCHANGED <<sip_files, disk, bagit_schema,
                 sipfile_name_formatter,
                 sip_table,
                 status_receiver,
                 creating>>

(***************************************************************************)
(* BagItArchiver.create.                                                   *)
(***************************************************************************)
\* variant: the record is generated on every call
need_create_always(bagit_meta) == TRUE

\* line 249: if not bagit_meta
need_create(bagit_meta) == bagit_meta = None

\* variant: the tag files are saved before the payload is written
create_files_tags_first(s, bagit_meta, worder) ==
  LET NotFetchedFile(fi) == ~_is_fetched(fi) /\ "file_uuid" \in DOMAIN fi
      archived_data == SelectSeq(bagit_meta.datafiles, NotFetchedFile)
      fetched_data == SelectSeq(bagit_meta.datafiles, _is_fetched)
      archived_s == {archived_data[i].file_uuid :
                       i \in 1 .. Len(archived_data)}
      InArchived(f) == f.file_id \in archived_s
      sipfiles == SelectSeq(sip_files[s], InArchived)
      bagitfiles == bagit_meta.bagitfiles
  IN [files |->
        BaseCreateInfo(s, sipfiles, worder) \o fetched_data
          \o [i \in 1 .. Len(bagitfiles) |->
                _save_file(s, bagitfiles[i].filename, bagitfiles[i].content)],
      writes |->
        [i \in 1 .. Len(bagitfiles) |->
           <<bagitfiles[i].filename, bagitfiles[i].content>>]
          \o BaseCreateWrites(s, sipfiles, worder)]

\* lines 255-271: the list create returns and the files it writes, given the
\* manifest record (worder: the types of the archived metadata rows)
create_files(s, bagit_meta, worder) ==
  LET NotFetchedFile(fi) == ~_is_fetched(fi) /\ "file_uuid" \in DOMAIN fi
      archived_data == SelectSeq(bagit_meta.datafiles, NotFetchedFile)
      fetched_data == SelectSeq(bagit_meta.datafiles, _is_fetched)
      archived_s == {archived_data[i].file_uuid :
                       i \in 1 .. Len(archived_data)}
      InArchived(f) == f.file_id \in archived_s
      sipfiles == SelectSeq(sip_files[s], InArchived)
      bagitfiles == bagit_meta.bagitfiles
  IN [files |->
        BaseCreateInfo(s, sipfiles, worder) \o fetched_data
          \o [i \in 1 .. Len(bagitfiles) |->
                _save_file(s, bagitfiles[i].filename, bagitfiles[i].content)],
      writes |->
        BaseCreateWrites(s, sipfiles, worder)
          \o [i \in 1 .. Len(bagitfiles) |->
                <<bagitfiles[i].filename, bagitfiles[i].content>>]]

\* what one call of create computes: the exception it ends with, the outcome
\* of the nested create_bagit_metadata, the returned list and the writes
create_result(s, patch_of, include_missing_files, schema, forder, sorder, morder, worder, now) ==
  LET cached == get_bagit_metadata_json(s)
      out == IF need_create(cached)
             THEN create_bagit_metadata_result(
                    s, patch_of, include_missing_files, schema, forder,
                    sorder, morder, now)
             ELSE [error |-> "none", inserted |-> FALSE, doc |-> cached,
                   sipfiles |-> <<>>]
      io == IF out.error = "none" THEN create_files(s, out.doc, worder)
            ELSE [files |-> <<>>, writes |-> <<>>]
  IN [error |-> out.error, inserted |-> out.inserted, doc |-> out.doc,
      sipfiles |-> out.sipfiles, files |-> io.files, writes |-> io.writes]

create(s, patch_of, include_missing_files) ==
  \E forder \in Orderings(FetchedSet(s, patch_of, include_missing_files)),
     sorder \in Orderings(StoredSet(s, patch_of)),
     morder \in {ArchivedMetadataRows(s)},
     worder \in {ArchivedMetadataRows(s)},
     now \in Dates :
    \E out \in {create_result(s, patch_of, include_missing_files,
                              bagit_schema, forder, sorder, morder, worder,
                              now)} :
      /\ sip_metadata' = add_bagit_metadata(s, out)
      /\ sip_metadata_rows' = add_bagit_metadata_row(s, out)
      /\ disk' = [disk EXCEPT ![s] = ApplyWrites(@, out.writes)]
      /\ res' = IF out.error = "none"
                THEN [NoResult EXCEPT !.op = "create", !.sip = s,
                        !.created = out.inserted,
                        !.again = (res.op = "create" /\ res.error = "none"
                                     /\ res.sip = s),
                        !.patch_of = patch_of,
                        !.include_missing_files =
                           patch_of # NoSip /\ include_missing_files,
                        !.stored = selected_ids(out),
                        !.files = out.files,
                        !.written = out.writes]
                ELSE [NoResult EXCEPT !.op = "create", !.sip = s,
                        !.patch_of = patch_of, !.error = out.error]
      /\ UNCHANGED <<sip_files, bagit_schema,
                 sipfile_name_formatter,
                 sip_table,
                 status_receiver,
                 creating>>

\* the (patch_of, include_missing_files) arguments of a call on s: a patch base
\* is another SIP, created earlier; the flag is read only when patching
PatchArgs(s) ==
  {<<NoSip, FALSE>>} \cup ({q \in SIPS : q < s} \X BOOLEAN)

Next ==
  \/ \E s \in SIPS, p \in FilePaths, f \in FileIds : attach_file(s, p, f)
  \/ \E s \in SIPS : \E a \in PatchArgs(s) :
       create_bagit_metadata(s, a[1], a[2])
  \/ \E s \in SIPS : \E a \in PatchArgs(s) : create(s, a[1], a[2])

Spec == Init /\ [][Next]_vars

(***************************************************************************)
(* BaseArchiver: the file-information dicts and write_all_files.           *)
(***************************************************************************)
data_dir == "files"

metadata_dir == "metadata"

extra_dir == ""

_get_fullpath(s, filepath) == join("/archive/sip" \o ToString(s), filepath)

(***************************************************************************)
(* archivers/utils.py: the SIPFile name formatters.  secure_filename is    *)
(* werkzeug's: NFKD and ASCII ('~' stands for o-acute, which leaves 'o'),  *)
(* path separators to spaces, whitespace runs to '_', every character      *)
(* outside [A-Za-z0-9_.-] dropped, '.' and '_' stripped from both ends.    *)
(***************************************************************************)
\* text.replace(old, new) for a one-character old
RECURSIVE replace(_, _, _)
replace(text, old, new) == IF text = "" THEN "" ELSE (IF SubSeq(text, 1, 1) = old THEN new ELSE SubSeq(text, 1, 1)) \o replace(SubSeq(text, 2, Len(text)), old, new)

\* unicodedata.normalize('NFKD', text).encode('ascii', 'ignore')
ascii_ignore(text) == replace(text, "~", "o")

\* text.split(): the whitespace-separated words, empty ones dropped
RECURSIVE split_words(_)
split_words(text) == IF text = "" THEN <<>> ELSE IF SubSeq(text, 1, 1) = " " THEN split_words(SubSeq(text, 2, Len(text))) ELSE LET rest == split_words(SubSeq(text, 2, Len(text))) IN IF Len(text) > 1 /\ SubSeq(text, 2, 2) # " " THEN <<SubSeq(text, 1, 1) \o Head(rest)>> \o Tail(rest) ELSE <<SubSeq(text, 1, 1)>> \o rest

RECURSIVE join_words(_, _)
join_words(sep, words) == IF words = <<>> THEN "" ELSE IF Len(words) = 1 THEN Head(words) ELSE Head(words) \o sep \o join_words(sep, Tail(words))

\* the characters _filename_ascii_strip_re keeps, as far as paths have them
FilenameChars == {"a", "o", "_", ".", "-"}

RECURSIVE ascii_strip(_)
ascii_strip(text) == IF text = "" THEN "" ELSE (IF SubSeq(text, 1, 1) \in FilenameChars THEN SubSeq(text, 1, 1) ELSE "") \o ascii_strip(SubSeq(text, 2, Len(text)))

\* text.strip('._')
RECURSIVE strip(_)
strip(text) == IF text = "" THEN "" ELSE IF SubSeq(text, 1, 1) \in {".", "_"} THEN strip(SubSeq(text, 2, Len(text))) ELSE IF SubSeq(text, Len(text), Len(text)) \in {".", "_"} THEN strip(SubSeq(text, 1, Len(text) - 1)) ELSE text

secure_filename(filename) ==
  strip(ascii_strip(join_words("_", split_words(
                      replace(ascii_ignore(filename), "/", " ")))))

default_sipfile_name_formatter(sipfile) == sipfile.filepath

secure_sipfile_name_formatter(sipfile) ==
  sipfile.file_id \o "-" \o secure_filename(sipfile.filepath)

\* current_sipstore.sipfile_name_formatter: the configured formatter
current_sipfile_name_formatter(sipfile) ==
  IF sipfile_name_formatter = "secure"
  THEN secure_sipfile_name_formatter(sipfile)
  ELSE default_sipfile_name_formatter(sipfile)

_generate_sipfile_info(s, sipfile) ==
  LET filename == current_sipfile_name_formatter(sipfile)
      filepath == join(data_dir, filename)
  IN [checksum |-> FileChecksum(sipfile.file_id),
      size |-> FileSize(sipfile.file_id),
      filepath |-> filepath,
      fullpath |-> _get_fullpath(s, filepath),
      file_uuid |-> sipfile.file_id,
      filename |-> filename,
      sipfilepath |-> sipfile.filepath]

\* str.encode('utf-8'), character by character
Utf8Char(c) == IF c = "~" THEN "^~" ELSE c

RECURSIVE encode_utf8(_)
encode_utf8(text) ==
  IF text = "" THEN ""
  ELSE Utf8Char(SubSeq(text, 1, 1))
         \o encode_utf8(SubSeq(text, 2, Len(text)))

_generate_sipmetadata_info(s, type) ==
  LET filepath == join(metadata_dir, type \o "." \o TypeFormat(type))
  IN [checksum |-> <<"md5", ":", Md5Hex(encode_utf8(sip_metadata[s][type]))>>,
      size |-> Len(sip_metadata[s][type]),
      filepath |-> filepath,
      fullpath |-> _get_fullpath(s, filepath),
      metadata_id |-> type]

_generate_extra_info(s, content, filename) ==
  [checksum |-> <<"md5", ":", Md5Hex(encode_utf8(content))>>,
   size |-> Len(content),
   filepath |-> join(extra_dir, filename),
   fullpath |-> _get_fullpath(s, join(extra_dir, filename)),
   content |-> content]

_get_data_files(s) ==
  [i \in 1 .. Len(sip_files[s]) |-> _generate_sipfile_info(s, sip_files[s][i])]

\* variant: a call that follows a call of get_all_files lists the rows in the
\* opposite order
_get_metadata_files_unstable(s, morder) ==
  [i \in 1 .. Len(morder) |->
     _generate_sipmetadata_info(
       s, IF res.op = "get_all_files" /\ ~res.again
          THEN morder[Len(morder) + 1 - i] ELSE morder[i])]

\* morder: the types of the rows of self.sip.metadata that pass the filter
_get_metadata_files(s, morder) ==
  [i \in 1 .. Len(morder) |-> _generate_sipmetadata_info(s, morder[i])]

\* filenames_mapping_file is None, the constructor's default
_get_extra_files(data_files, metadata_files) == <<>>

get_all_files(s, morder) ==
  LET data_files == _get_data_files(s)
      metadata_files == _get_metadata_files(s, morder)
  IN data_files \o metadata_files
       \o _get_extra_files(data_files, metadata_files)

MandatoryKeys == {"file_uuid", "metadata_id", "content"}

HasMandatoryKey(fi) == MandatoryKeys \cap DOMAIN fi # {}

\* the exception writing one entry ends with: _write_sipmetadata reads
\* .updated of the row SIPMetadata.query.get returns, None when there is none
write_error(s, fi) ==
  IF "file_uuid" \in DOMAIN fi THEN "none"
  ELSE IF "metadata_id" \in DOMAIN fi
  THEN IF SIPMetadataExists(s, fi.metadata_id) THEN "none"
       ELSE "AttributeError"
  ELSE IF "content" \in DOMAIN fi THEN "none"
  ELSE "KeyError"

\* the <<path, bytes>> one entry puts on the package directory
write_one(s, fi) ==
  IF "file_uuid" \in DOMAIN fi THEN <<fi.filepath, FileBytes(fi.file_uuid)>>
  ELSE IF "metadata_id" \in DOMAIN fi
  THEN <<fi.filepath, encode_utf8(sip_metadata[s][fi.metadata_id])>>
  ELSE <<fi.filepath, encode_utf8(fi.content)>>

\* variant: copied_size is the size of the entry just written
status_message_current(filesinfo, idx) ==
  [total_files |-> Len(filesinfo),
   total_size |-> SumSizes(filesinfo),
   copied_files |-> idx,
   copied_size |-> filesinfo[idx].size,
   current_filename |-> filesinfo[idx].filepath,
   current_filesize |-> filesinfo[idx].size]

\* the sipstore_archiver_status message sent after entry idx is written
status_message(filesinfo, idx) ==
  [total_files |-> Len(filesinfo),
   total_size |-> SumSizes(filesinfo),
   copied_files |-> idx,
   copied_size |-> SumSizes(SubSeq(filesinfo, 1, idx)),
   current_filename |-> filesinfo[idx].filepath,
   current_filesize |-> filesinfo[idx].size]

\* variant: an exception of the receiver is caught and the loop goes on
receiver_raises_never(idx) == FALSE

\* sipstore_archiver_status.send(...) at lines 401-408: the connected
\* receiver handles the message with copied_files = idx; what it returns is
\* dropped, what it raises leaves send and the loop
receiver_raises(idx) ==
  status_receiver.at = idx /\ status_receiver.how = "raise"

\* lines 390-408: the loop, which ends at the first entry whose write raises
\* or whose message makes the receiver raise
write_loop(s, filesinfo) ==
  LET failing == {i \in 1 .. Len(filesinfo) :
                    write_error(s, filesinfo[i]) # "none"}
      raising == {i \in 1 .. Len(filesinfo) : receiver_raises(i)}
      w == IF failing = {} THEN Len(filesinfo) + 1
           ELSE CHOOSE i \in failing : \A j \in failing : i <= j
      r == IF raising = {} THEN Len(filesinfo) + 1
           ELSE CHOOSE i \in raising : \A j \in raising : i <= j
      n == IF r < w THEN r ELSE w - 1
  IN [filesinfo |-> filesinfo,
      error |-> IF r < w THEN "ReceiverError"
                ELSE IF failing = {} THEN "none"
                ELSE write_error(s, filesinfo[w]),
      writes |-> [i \in 1 .. n |-> write_one(s, filesinfo[i])],
      events |-> [i \in 1 .. n |-> status_message(filesinfo, i)]]

\* variant: an entry without a mandatory key is detected when the loop
\* reaches it
write_all_files_lazy(s, filesinfo, morder) ==
  LET fis == IF filesinfo = <<>> THEN get_all_files(s, morder) ELSE filesinfo
      out == write_loop(s, fis)
  IN [out EXCEPT !.error = IF @ = "KeyError" THEN "ValueError" ELSE @]

\* what one call of write_all_files computes
write_all_files_result(s, filesinfo, morder) ==
  LET fis == IF filesinfo = <<>> THEN get_all_files(s, morder) ELSE filesinfo
  IN IF ~(\A i \in 1 .. Len(fis) : HasMandatoryKey(fis[i]))
     THEN [filesinfo |-> fis, error |-> "ValueError", writes |-> <<>>,
           events |-> <<>>]
     ELSE write_loop(s, fis)

write_all_files(s, filesinfo) ==
  \E morder \in {ArchivedMetadataRows(s)} :
    \E out \in {write_all_files_result(s, filesinfo, morder)} :
      /\ disk' = [disk EXCEPT ![s] = ApplyWrites(@, out.writes)]
      /\ res' = [NoResult EXCEPT !.op = "write_all_files", !.sip = s,
                   !.error = out.error, !.filesinfo = filesinfo,
                   !.files = out.filesinfo, !.written = out.writes,
                   !.events = out.events]
      /\ UNCHANGED <<sip_files, sip_metadata, sip_metadata_rows,
                     bagit_schema,
                 sipfile_name_formatter,
                 sip_table,
                 status_receiver,
                 creating>>

\* the entries a caller crafts for SIP s: those get_all_files gives, an extra
\* text file, an entry for a metadata type the SIP has no row of, and an
\* entry stripped of its identifying key
MaxInfos == 2

README == "README"

CraftedInfos(s) ==
  {_generate_sipfile_info(s, sip_files[s][i]) : i \in 1 .. Len(sip_files[s])}
    \cup {_generate_sipmetadata_info(s, type) :
            type \in ArchivedMetadataTypes(s)}
    \cup {_generate_extra_info(s, "The archive.", README),
          [checksum |-> <<"md5", ":", Md5Hex("{}")>>, size |-> 2,
           filepath |-> "metadata/marcxml-test.xml",
           fullpath |-> _get_fullpath(s, "metadata/marcxml-test.xml"),
           metadata_id |-> "marcxml-test"],
          [checksum |-> <<"md5", ":", Md5Hex("")>>, size |-> 0,
           filepath |-> "files/empty.txt",
           fullpath |-> _get_fullpath(s, "files/empty.txt")]}

FilesInfoArgs(s) ==
  UNION {[1 .. n -> CraftedInfos(s)] : n \in 0 .. MaxInfos}

\* the SIPs as the archiver finds them: files and metadata attached
AttachedFiles ==
  (1 :> <<[filepath |-> "a.txt", file_id |-> "f1"],
          [filepath |-> "b.txt", file_id |-> "f2"]>>)
    @@ (2 :> <<[filepath |-> "a.txt", file_id |-> "f1"]>>)

InitWrite ==
  /\ sip_files = AttachedFiles
  /\ sip_metadata = InitialMetadata
  /\ sip_metadata_rows = InitialMetadataRows
  /\ disk = [s \in SIPS |-> <<>>]
  /\ bagit_schema = BaseSchema
  /\ sipfile_name_formatter = "default"
  /\ sip_table = [s \in SIPS |-> [archivable |-> TRUE, archived |-> FALSE]]
  /\ status_receiver = [at |-> 0, how |-> "return"]
  /\ creating = <<>>
  /\ res = NoResult

NextWrite ==
  \E s \in SIPS : \E filesinfo \in FilesInfoArgs(s) :
     write_all_files(s, filesinfo)

SpecWrite == InitWrite /\ [][NextWrite]_vars

(***************************************************************************)
(* write_all_files with a receiver connected to sipstore_archiver_status   *)
(* that, on the message for one entry, asks for the archival to stop:      *)
(* either by raising or by returning a value.                              *)
(***************************************************************************)
Receivers == [at : 1 .. MaxInfos, how : {"raise", "return"}]

InitCancel ==
  /\ sip_files = AttachedFiles
  /\ sip_metadata = InitialMetadata
  /\ sip_metadata_rows = InitialMetadataRows
  /\ disk = [s \in SIPS |-> <<>>]
  /\ bagit_schema = BaseSchema
  /\ sipfile_name_formatter = "default"
  /\ sip_table = [s \in SIPS |-> [archivable |-> TRUE, archived |-> FALSE]]
  /\ status_receiver \in Receivers
  /\ creating = <<>>
  /\ res = NoResult

\* the calls on SIP 2, whose entries are a file, a text, an entry of a missing
\* metadata type and an entry without key
SpecCancel ==
  InitCancel
    /\ [][\E filesinfo \in FilesInfoArgs(2) : write_all_files(2, filesinfo)]_vars

(***************************************************************************)
(* The base archiver over one SIP whose files and metadata are attached    *)
(* step by step: api.SIP.attach_metadata, BaseArchiver.get_all_files and   *)
(* write_all_files without argument.                                       *)
(***************************************************************************)
MaxMetadata == 2

MetadataTypes == {"json-test", "marcxml-test", "txt-test", "bagit"}

\* the documents a caller attaches under each type
MetadataContents(type) ==
  CASE type = "json-test" -> {"{\"title\": \"JSON 1\"}"}
    [] type = "marcxml-test" -> {"<p>XML 1</p>", "<p>XML 4 ~</p>"}
    [] type = "txt-test" -> {"Title: TXT 1"}
    [] OTHER -> {"{}"}

NumSIPMetadataRows ==
  SumOver(SIPS, [s \in SIPS |-> Len(sip_metadata_rows[s])])

\* the primary key (sip_id, type_id) of models.py is the guard
attach_metadata(s, type, metadata) ==
  /\ NumSIPMetadataRows < MaxMetadata
  /\ ~SIPMetadataExists(s, type)
  /\ sip_metadata' = [sip_metadata EXCEPT ![s] = (type :> metadata) @@ @]
  /\ sip_metadata_rows' = [sip_metadata_rows EXCEPT ![s] = Append(@, type)]
  /\ res' = [NoResult EXCEPT !.op = "attach"]
  /\ UNCHANGED <<sip_files, disk, bagit_schema,
                 sipfile_name_formatter,
                 sip_table,
                 status_receiver,
                 creating>>

\* a call of get_all_files: the list it returns is kept in res.files
get_all_files_call(s) ==
  /\ res' = [NoResult EXCEPT !.op = "get_all_files", !.sip = s,
               !.again = (res.op = "get_all_files" /\ res.sip = s),
               !.files = get_all_files(s, ArchivedMetadataRows(s))]
  /\ UNCHANGED <<sip_files, sip_metadata, sip_metadata_rows, disk,
                 bagit_schema,
                 sipfile_name_formatter,
                 sip_table,
                 status_receiver,
                 creating>>

PlannedSIPS == {1}

InitPlan ==
  /\ sip_files = [s \in SIPS |-> <<>>]
  /\ sip_metadata = [s \in SIPS |-> <<>>]
  /\ sip_metadata_rows = [s \in SIPS |-> <<>>]
  /\ disk = [s \in SIPS |-> <<>>]
  /\ bagit_schema = BaseSchema
  /\ sipfile_name_formatter = "default"
  /\ sip_table = [s \in SIPS |-> [archivable |-> TRUE, archived |-> FALSE]]
  /\ status_receiver = [at |-> 0, how |-> "return"]
  /\ creating = <<>>
  /\ res = NoResult

NextPlan ==
  \/ \E s \in PlannedSIPS, p \in FilePaths, f \in FileIds :
       attach_file(s, p, f)
  \/ \E s \in PlannedSIPS, type \in MetadataTypes :
       \E metadata \in MetadataContents(type) :
          attach_metadata(s, type, metadata)
  \/ \E s \in PlannedSIPS : get_all_files_call(s)
  \/ \E s \in PlannedSIPS : write_all_files(s, <<>>)

SpecPlan == InitPlan /\ [][NextPlan]_vars

(***************************************************************************)
(* BagItArchiver._get_checksum on its own, and the BagIt archiver over     *)
(* SIPs one of whose files carries a checksum of another algorithm.        *)
(***************************************************************************)
MaxTokens == 3

ChecksumTokens == {"md5", "sha1", ":", "12"}

ChecksumArgs == UNION {[1 .. n -> ChecksumTokens] : n \in 0 .. MaxTokens}

_get_checksum_call(checksum) ==
  /\ res' = [NoResult EXCEPT !.op = "_get_checksum",
               !.checksum = checksum,
               !.error = _get_checksum(checksum).error,
               !.value = _get_checksum(checksum).value]
  /\ UNCHANGED <<sip_files, sip_metadata, sip_metadata_rows, disk,
                 bagit_schema,
                 sipfile_name_formatter,
                 sip_table,
                 status_receiver,
                 creating>>

\* SIP 1 holds an md5-checksummed file, SIP 2 the same file and f3
ChecksumFiles ==
  (1 :> <<[filepath |-> "a.txt", file_id |-> "f1"]>>)
    @@ (2 :> <<[filepath |-> "a.txt", file_id |-> "f1"],
               [filepath |-> "b.txt", file_id |-> "f3"]>>)

InitChecksum ==
  /\ sip_files = ChecksumFiles
  /\ sip_metadata = InitialMetadata
  /\ sip_metadata_rows = InitialMetadataRows
  /\ disk = [s \in SIPS |-> <<>>]
  /\ bagit_schema = BaseSchema
  /\ sipfile_name_formatter = "default"
  /\ sip_table = [s \in SIPS |-> [archivable |-> TRUE, archived |-> FALSE]]
  /\ status_receiver = [at |-> 0, how |-> "return"]
  /\ creating = <<>>
  /\ res = NoResult

NextChecksum ==
  \/ \E checksum \in ChecksumArgs : _get_checksum_call(checksum)
  \/ \E s \in SIPS : \E a \in PatchArgs(s) :
       create_bagit_metadata(s, a[1], a[2])
  \/ \E s \in SIPS : \E a \in PatchArgs(s) : create(s, a[1], a[2])

SpecChecksum == InitChecksum /\ [][NextChecksum]_vars

(***************************************************************************)
(* The new API under the secure name formatter: files are attached to one  *)
(* SIP under paths that secure_filename rewrites.                           *)
(***************************************************************************)
MaxNamedFiles == 2

\* logical paths of the kinds tests/test_utils.py lists: plain, climbing out
\* of the directory, absolute, hidden, nested, with a space, non-ASCII
NamedPaths == {"a", "../a", "/a", ".a", "a/a", "a_a", "a a", "~"}

attach_named_file(s, filepath, file_id) ==
  /\ NumSIPFileRows < MaxNamedFiles
  /\ attach_file(s, filepath, file_id)

InitNames ==
  /\ sip_files = [s \in SIPS |-> <<>>]
  /\ sip_metadata = [s \in SIPS |-> <<>>]
  /\ sip_metadata_rows = [s \in SIPS |-> <<>>]
  /\ disk = [s \in SIPS |-> <<>>]
  /\ bagit_schema = BaseSchema
  /\ sipfile_name_formatter = "secure"
  /\ sip_table = [s \in SIPS |-> [archivable |-> TRUE, archived |-> FALSE]]
  /\ status_receiver = [at |-> 0, how |-> "return"]
  /\ creating = <<>>
  /\ res = NoResult

NextNames ==
  \/ \E s \in PlannedSIPS, p \in NamedPaths, f \in FileIds :
       attach_named_file(s, p, f)
  \/ \E s \in PlannedSIPS : get_all_files_call(s)
  \/ \E s \in PlannedSIPS : write_all_files(s, <<>>)

SpecNames == InitNames /\ [][NextNames]_vars

(***************************************************************************)
(* archivers/utils.py: chunks and default_archive_directory_builder.  The  *)
(* argument n is an int, [int |-> k], or a list, [list |-> <<...>>].       *)
(***************************************************************************)
MaxIterable == 4

MaxSizes == 2

Min(a, b) == IF a < b THEN a ELSE b

\* iterable[a:b] for 0 <= a <= b
slice(iterable, a, b) == SubSeq(iterable, a + 1, IF b < Len(iterable) THEN b ELSE Len(iterable))

\* lines 48-49: for i in range(0, len(iterable), n)
RECURSIVE chunks_int(_, _, _)
chunks_int(iterable, n, i) == IF i >= Len(iterable) THEN <<>> ELSE <<slice(iterable, i, i + n)>> \o chunks_int(iterable, n, i + n)

\* lines 54-57: for i in n
RECURSIVE chunks_loop(_, _, _)
chunks_loop(iterable, n, acc) == IF n = <<>> THEN <<>> ELSE IF acc < Len(iterable) THEN <<slice(iterable, acc, acc + Head(n))>> \o chunks_loop(iterable, Tail(n), acc + Head(n)) ELSE chunks_loop(iterable, Tail(n), acc)

RECURSIVE sum(_)
sum(n) == IF n = <<>> THEN 0 ELSE Head(n) + sum(Tail(n))

\* variant: the list is used as given
chunks_n_as_given(iterable, n) == n

\* lines 52-53: the list after n.append(len(iterable))
chunks_n(iterable, n) ==
  IF sum(n) < Len(iterable) THEN Append(n, Len(iterable)) ELSE n

\* list(chunks(iterable, n))
chunks(iterable, n) ==
  IF "int" \in DOMAIN n THEN chunks_int(iterable, n.int, 0)
  ELSE chunks_loop(iterable, chunks_n(iterable, n.list), 0)

default_archive_directory_builder(sip_id) ==
  chunks(sip_id, [list |-> <<2, 2>>])

\* str(sip.id) of the SIPs of tests/test_utils.py and of the docstring
SipUuids == {"abcd0000-1111-2222-3333-444455556666", "abcdefgh-1234-1234-1234-1234567890ab"}

RECURSIVE TextsOfLen(_)
TextsOfLen(k) == IF k = 0 THEN {""} ELSE {c \o t : c \in {"a", "b"}, t \in TextsOfLen(k - 1)}

Iterables == UNION {TextsOfLen(k) : k \in 0 .. MaxIterable}

ChunkSizes == 0 .. 2

SizeArgs == {[int |-> k] : k \in ChunkSizes \ {0}} \cup {[list |-> l] : l \in UNION {[1 .. k -> ChunkSizes] : k \in 0 .. MaxSizes}}

\* a call list(chunks(iterable, n)); res.n_after is n after the call
chunks_call(iterable, n) ==
  /\ res' = [NoResult EXCEPT !.op = "chunks", !.iterable = iterable,
               !.n = n,
               !.n_after = IF "int" \in DOMAIN n THEN n
                           ELSE [list |-> chunks_n(iterable, n.list)],
               !.chunks = chunks(iterable, n)]
  /\ UNCHANGED <<sip_files, sip_metadata, sip_metadata_rows, disk,
                 bagit_schema, sipfile_name_formatter,
                 sip_table,
                 status_receiver,
                 creating>>

default_archive_directory_builder_call(sip_id) ==
  /\ res' = [NoResult EXCEPT !.op = "default_archive_directory_builder",
               !.iterable = sip_id,
               !.chunks = default_archive_directory_builder(sip_id)]
  /\ UNCHANGED <<sip_files, sip_metadata, sip_metadata_rows, disk,
                 bagit_schema, sipfile_name_formatter,
                 sip_table,
                 status_receiver,
                 creating>>

InitChunks ==
  /\ sip_files = [s \in SIPS |-> <<>>]
  /\ sip_metadata = [s \in SIPS |-> <<>>]
  /\ sip_metadata_rows = [s \in SIPS |-> <<>>]
  /\ disk = [s \in SIPS |-> <<>>]
  /\ bagit_schema = BaseSchema
  /\ sipfile_name_formatter = "default"
  /\ sip_table = [s \in SIPS |-> [archivable |-> TRUE, archived |-> FALSE]]
  /\ status_receiver = [at |-> 0, how |-> "return"]
  /\ creating = <<>>
  /\ res = NoResult

NextChunks ==
  \/ \E iterable \in Iterables, n \in SizeArgs : chunks_call(iterable, n)
  \/ \E sip_id \in SipUuids : default_archive_directory_builder_call(sip_id)

SpecChunks == InitChunks /\ [][NextChunks]_vars

(***************************************************************************)
(* api.SIP.create: the SIP row, its SIPFile and SIPMetadata rows, all      *)
(* inside one nested transaction, then the sipstore_created signal.  The   *)
(* database is the record [sip_table, sip_files, sip_metadata,             *)
(* sip_metadata_rows]; a SIP id without row has sip_table[id] = None.      *)
(***************************************************************************)
MaxCreateFiles == 2

\* the value the tests configure (config.py has 1024)
SIPSTORE_FILEPATH_MAX_LEN == 15

\* ObjectVersion.key of the files handed to SIP.create
ObjectKeys == {"a.txt", "b.txt", "a-very-long-name.txt"}

ObjectVersions == [key : ObjectKeys, file_id : {"f1"}]

\* names with a SIPMetadataType row; 'no-such-type' has none
KnownTypes == {"json-test", "marcxml-test", "txt-test", "bagit"}

CreateMetadata == {<<>>, "json-test" :> "{}", "no-such-type" :> "{}", ("json-test" :> "{}") @@ ("marcxml-test" :> "<p>XML 1</p>")}

database == [sip_table |-> sip_table, sip_files |-> sip_files, sip_metadata |-> sip_metadata, sip_metadata_rows |-> sip_metadata_rows]

\* models.SIP.create: the row is added inside its own nested transaction
SIP_create(db, id, archivable) ==
  [db EXCEPT !.sip_table[id] = [archivable |-> archivable, archived |-> FALSE],
             !.sip_files[id] = <<>>, !.sip_metadata[id] = <<>>,
             !.sip_metadata_rows[id] = <<>>]

\* SIPFile.validate_key
validate_key(filepath) ==
  IF Len(filepath) > SIPSTORE_FILEPATH_MAX_LEN THEN "ValueError" ELSE "none"

\* the flush of the pending SIPFile rows: the primary key (sip_id, filepath)
flush_error(files) ==
  IF \E i, j \in 1 .. Len(files) : i < j /\ files[i].key = files[j].key
  THEN "IntegrityError" ELSE "none"

\* SIPMetadataType.get_from_name: .one()
get_from_name_error(type) ==
  IF type \in KnownTypes THEN "none" ELSE "NoResultFound"

FirstIn(S) == CHOOSE i \in S : \A j \in S : i <= j

\* the body of the with block: how many files and metadata entries are
\* attached before it ends, and the exception it ends with.  The query of
\* attach_metadata flushes the pending SIPFile rows first.
create_body(files, types) ==
  LET long == {i \in 1 .. Len(files) : validate_key(files[i].key) # "none"}
      unknown == {i \in 1 .. Len(types) : get_from_name_error(types[i]) # "none"}
  IN IF long # {}
     THEN [error |-> "ValueError", files |-> FirstIn(long) - 1, types |-> 0]
     ELSE IF flush_error(files) # "none"
     THEN [error |-> "IntegrityError", files |-> Len(files), types |-> 0]
     ELSE IF unknown # {}
     THEN [error |-> "NoResultFound", files |-> Len(files),
           types |-> FirstIn(unknown) - 1]
     ELSE [error |-> "none", files |-> Len(files), types |-> Len(types)]

\* the rows in the session when the with block ends
create_rows(db, id, archivable, files, types, metadata, body) ==
  [SIP_create(db, id, archivable) EXCEPT
     !.sip_files[id] = [i \in 1 .. body.files |-> [filepath |-> files[i].key, file_id |-> files[i].file_id]],
     !.sip_metadata[id] = [t \in {types[i] : i \in 1 .. body.types} |-> metadata[t]],
     !.sip_metadata_rows[id] = SubSeq(types, 1, body.types)]

\* variant: the rows added before the exception stay
begin_nested_no_rollback(savepoint, rows, error) == rows

\* with db.session.begin_nested(): an exception rolls back to the savepoint
begin_nested(savepoint, rows, error) ==
  IF error # "none" THEN savepoint ELSE rows

\* the message of sipstore_created.send(sip), with what a receiver finds in
\* sender.files and sender.metadata
sipstore_created(db, id) ==
  [signal |-> "sipstore_created", sender |-> id,
   files |-> Len(db.sip_files[id]), metadata |-> Len(db.sip_metadata_rows[id])]

\* types: the keys of the metadata dict in the order of metadata.items()
create_sip_result(db, id, archivable, files, types, metadata) ==
  LET body == create_body(files, types)
      after == begin_nested(db, create_rows(db, id, archivable, files, types, metadata, body), body.error)
  IN [error |-> body.error, db |-> after,
      events |-> IF body.error = "none" THEN <<sipstore_created(after, id)>> ELSE <<>>]

create_sip(id, archivable, files, metadata) ==
  /\ sip_table[id] = None
  /\ \E types \in Orderings(DOMAIN metadata) :
       \E out \in {create_sip_result(database, id, archivable, files, types, metadata)} :
         /\ sip_table' = out.db.sip_table
         /\ sip_files' = out.db.sip_files
         /\ sip_metadata' = out.db.sip_metadata
         /\ sip_metadata_rows' = out.db.sip_metadata_rows
         /\ res' = [NoResult EXCEPT !.op = "SIP.create",
                      !.sip = IF out.error = "none" THEN id ELSE NoSip,
                      !.created = out.error = "none",
                      !.error = out.error, !.filesinfo = files,
                      !.n = DOMAIN metadata, !.events = out.events]
  /\ UNCHANGED <<disk, bagit_schema, sipfile_name_formatter,
                 status_receiver,
                 creating>>

CreateFiles == UNION {[1 .. k -> ObjectVersions] : k \in 0 .. MaxCreateFiles}

InitCreate ==
  /\ sip_table = [s \in SIPS |-> None]
  /\ sip_files = [s \in SIPS |-> <<>>]
  /\ sip_metadata = [s \in SIPS |-> <<>>]
  /\ sip_metadata_rows = [s \in SIPS |-> <<>>]
  /\ disk = [s \in SIPS |-> <<>>]
  /\ bagit_schema = BaseSchema
  /\ sipfile_name_formatter = "default"
  /\ status_receiver = [at |-> 0, how |-> "return"]
  /\ creating = <<>>
  /\ res = NoResult

NextCreate ==
  \E id \in SIPS, archivable \in BOOLEAN, files \in CreateFiles, metadata \in CreateMetadata :
    create_sip(id, archivable, files, metadata)

SpecCreate == InitCreate /\ [][NextCreate]_vars

(***************************************************************************)
(* Chains of patches: three SIPs with their files attached, each bagged    *)
(* on its own or as a patch of an earlier one.                             *)
(***************************************************************************)
ChainSIPS == {1, 2, 3}

\* the files of one SIP of the chain
ChainFileLists == {<<>>, <<[filepath |-> "a.txt", file_id |-> "f1"]>>, <<[filepath |-> "b.txt", file_id |-> "f1"]>>, <<[filepath |-> "a.txt", file_id |-> "f1"], [filepath |-> "b.txt", file_id |-> "f2"]>>}

ChainPatchArgs(s) ==
  {<<NoSip, FALSE>>} \cup ({q \in ChainSIPS : q < s} \X BOOLEAN)

InitChain ==
  /\ sip_files \in [ChainSIPS -> ChainFileLists]
  /\ sip_metadata = [s \in ChainSIPS |-> <<>>]
  /\ sip_metadata_rows = [s \in ChainSIPS |-> <<>>]
  /\ disk = [s \in ChainSIPS |-> <<>>]
  /\ bagit_schema = BaseSchema
  /\ sipfile_name_formatter = "default"
  /\ sip_table = [s \in ChainSIPS |-> [archivable |-> TRUE, archived |-> FALSE]]
  /\ status_receiver = [at |-> 0, how |-> "return"]
  /\ creating = <<>>
  /\ res = NoResult

NextChain ==
  \E s \in ChainSIPS : \E a \in ChainPatchArgs(s) :
     create_bagit_metadata(s, a[1], a[2])

SpecChain == InitChain /\ [][NextChain]_vars

(***************************************************************************)
(* Two BagItArchiver.create calls in flight.  A call reads the record      *)
(* (line 248), then generates and inserts it when it read none (lines      *)
(* 249-253), then writes the files (lines 255-273); the calls of two       *)
(* workers interleave between these steps.  The SIPMetadata table is       *)
(* shared, and its primary key is checked when the row is inserted.        *)
(***************************************************************************)
Workers == {1, 2}

IdleWorker ==
  [pc |-> "idle", sip |-> NoSip, patch_of |-> NoSip,
   include_missing_files |-> FALSE, observed |-> None, bagit_meta |-> None,
   inserted |-> FALSE, error |-> "none"]

\* line 248: bagit_meta = self.get_bagit_metadata_json(self.sip)
create_read(w, s, patch_of, include_missing_files) ==
  /\ creating[w].pc = "idle"
  /\ creating' = [creating EXCEPT ![w] =
       [IdleWorker EXCEPT !.pc = IF need_create(get_bagit_metadata_json(s))
                                 THEN "read" ELSE "loaded",
                          !.sip = s, !.patch_of = patch_of,
                          !.include_missing_files = include_missing_files,
                          !.observed = get_bagit_metadata_json(s),
                          !.bagit_meta = get_bagit_metadata_json(s)]]
  /\ res' = [NoResult EXCEPT !.op = "create_read", !.sip = s]
  /\ UNCHANGED <<sip_files, sip_metadata, sip_metadata_rows, disk,
                 bagit_schema, sipfile_name_formatter, sip_table,
                 status_receiver>>

\* lines 249-253: the call that read no record runs create_bagit_metadata and
\* reads the record again; an exception of the insert ends the call
create_generate(w) ==
  LET c == creating[w]
  IN /\ c.pc = "read"
     /\ \E forder \in Orderings(FetchedSet(c.sip, c.patch_of,
                                           c.include_missing_files)),
           sorder \in Orderings(StoredSet(c.sip, c.patch_of)),
           morder \in {ArchivedMetadataRows(c.sip)},
           now \in Dates :
          \E out \in {create_bagit_metadata_result(
                        c.sip, c.patch_of, c.include_missing_files,
                        bagit_schema, forder, sorder, morder, now)} :
            /\ sip_metadata' = add_bagit_metadata(c.sip, out)
            /\ sip_metadata_rows' = add_bagit_metadata_row(c.sip, out)
            /\ creating' = [creating EXCEPT ![w] =
                 IF out.error = "none"
                 THEN [c EXCEPT !.pc = "loaded", !.bagit_meta = out.doc,
                                !.inserted = out.inserted]
                 ELSE [c EXCEPT !.pc = "idle", !.error = out.error,
                                !.inserted = out.inserted]]
            /\ res' = [NoResult EXCEPT !.op = "create_generate",
                         !.sip = c.sip, !.created = out.inserted,
                         !.error = out.error]
     /\ UNCHANGED <<sip_files, disk, bagit_schema, sipfile_name_formatter,
                    sip_table, status_receiver>>

\* lines 255-273: the files of the record are written and returned
create_write(w) ==
  LET c == creating[w]
  IN /\ c.pc = "loaded"
     /\ \E worder \in {ArchivedMetadataRows(c.sip)} :
          \E io \in {create_files(c.sip, c.bagit_meta, worder)} :
            /\ disk' = [disk EXCEPT ![c.sip] = ApplyWrites(@, io.writes)]
            /\ res' = [NoResult EXCEPT !.op = "create_write", !.sip = c.sip,
                         !.files = io.files, !.written = io.writes]
     /\ creating' = [creating EXCEPT ![w] = [c EXCEPT !.pc = "idle"]]
     /\ UNCHANGED <<sip_files, sip_metadata, sip_metadata_rows, bagit_schema,
                    sipfile_name_formatter, sip_table, status_receiver>>

InitRace ==
  /\ sip_files \in [SIPS -> ChainFileLists]
  /\ sip_metadata = InitialMetadata
  /\ sip_metadata_rows = InitialMetadataRows
  /\ disk = [s \in SIPS |-> <<>>]
  /\ bagit_schema = BaseSchema
  /\ sipfile_name_formatter = "default"
  /\ sip_table = [s \in SIPS |-> [archivable |-> TRUE, archived |-> FALSE]]
  /\ status_receiver = [at |-> 0, how |-> "return"]
  /\ creating = [w \in Workers |-> IdleWorker]
  /\ res = NoResult

NextRace ==
  \/ \E w \in Workers, s \in SIPS : \E a \in PatchArgs(s) :
       create_read(w, s, a[1], a[2])
  \/ \E w \in Workers : create_generate(w)
  \/ \E w \in Workers : create_write(w)

SpecRace == InitRace /\ [][NextRace]_vars

(***************************************************************************)
(* The archival operations of both archivers on SIPs with their files and  *)
(* metadata attached and with any value of the flags of the SIP row.       *)
(***************************************************************************)
InitArchive ==
  /\ sip_files = AttachedFiles
  /\ sip_metadata = InitialMetadata
  /\ sip_metadata_rows = InitialMetadataRows
  /\ disk = [s \in SIPS |-> <<>>]
  /\ bagit_schema = BaseSchema
  /\ sipfile_name_formatter = "default"
  /\ sip_table \in [SIPS -> [archivable : BOOLEAN, archived : BOOLEAN]]
  /\ status_receiver = [at |-> 0, how |-> "return"]
  /\ creating = <<>>
  /\ res = NoResult

NextArchive ==
  \/ \E s \in SIPS : \E a \in PatchArgs(s) :
       create_bagit_metadata(s, a[1], a[2])
  \/ \E s \in SIPS : \E a \in PatchArgs(s) : create(s, a[1], a[2])
  \/ \E s \in SIPS : write_all_files(s, <<>>)

SpecArchive == InitArchive /\ [][NextArchive]_vars

(***************************************************************************)
(* Properties of the patch resolver, read off the manifest record that a   *)
(* call has just added (res.created) for res.sip with base res.patch_of;   *)
(* res.stored holds the content ids of the SIPFiles selected for writing.  *)
(***************************************************************************)
Entries(files) == {files[i] : i \in 1 .. Len(files)}

DataFileEntries(doc) == {e \in Entries(doc.datafiles) : "file_uuid" \in DOMAIN e}

IsMarkedFetched(e) == "fetched" \in DOMAIN e /\ e.fetched = TRUE

RecordFetchedIds(doc) ==
  {e.file_uuid : e \in {x \in DataFileEntries(doc) : IsMarkedFetched(x)}}

BaseIds(p) ==
  {e.file_uuid : e \in DataFileEntries(sip_metadata[p][bagit_metadata_type_name])}

CurrentIds(s) == {sip_files[s][i].file_id : i \in 1 .. Len(sip_files[s])}

NewRecord == sip_metadata[res.sip][bagit_metadata_type_name]

PatchRecordAdded == res.created /\ res.patch_of # NoSip

\* C1: with patch_of = P and include_missing_files = False the ids marked
\* fetched are (ids recorded in P's data-file entries) intersected with (ids of
\* the current SIP's files), the ids selected for storing are (current ids)
\* minus (base ids), and an id present only in the base is in neither set.
C1_PatchSets ==
  (PatchRecordAdded /\ ~res.include_missing_files) =>
     /\ RecordFetchedIds(NewRecord)
          = BaseIds(res.patch_of) \cap CurrentIds(res.sip)
     /\ res.stored
          = CurrentIds(res.sip) \ BaseIds(res.patch_of)
     /\ \A id \in BaseIds(res.patch_of) \ CurrentIds(res.sip) :
          id \notin RecordFetchedIds(NewRecord) \cup res.stored

C1_Witness ==
  /\ PatchRecordAdded /\ ~res.include_missing_files
  /\ BaseIds(res.patch_of) \ CurrentIds(res.sip) # {}
  /\ res.stored # {}

\* C2: with patch_of = P and include_missing_files = True the fetched ids are
\* all the ids recorded in P's data-file entries, attached to the current SIP
\* or not, and the stored ids are still (current ids) minus (base ids).
C2_PatchSetsIncludeMissing ==
  (PatchRecordAdded /\ res.include_missing_files) =>
     /\ RecordFetchedIds(NewRecord) = BaseIds(res.patch_of)
     /\ res.stored
          = CurrentIds(res.sip) \ BaseIds(res.patch_of)

C2_Witness ==
  /\ PatchRecordAdded /\ res.include_missing_files
  /\ RecordFetchedIds(NewRecord) \ CurrentIds(res.sip) # {}
  /\ res.stored # {}

\* C3: for either value of include_missing_files no content id is both
\* fetched and stored in the record the patch resolver produces.
C3_FetchedStoredDisjoint ==
  PatchRecordAdded =>
     RecordFetchedIds(NewRecord) \cap res.stored = {}

C3_Witness ==
  /\ PatchRecordAdded
  /\ BaseIds(res.patch_of) \cap CurrentIds(res.sip) # {}
  /\ RecordFetchedIds(NewRecord) # {}

\* C4: a fetched entry's filename is the data directory joined with a logical
\* path under which the current SIP attaches that content, if it attaches it,
\* and the filename recorded in the base manifest otherwise; its path, size
\* and checksum are those recorded in the base manifest.
C4_FetchedEntry ==
  PatchRecordAdded =>
    \A e \in {x \in DataFileEntries(NewRecord) : IsMarkedFetched(x)} :
      /\ \E b \in DataFileEntries(
                    sip_metadata[res.patch_of][bagit_metadata_type_name]) :
            /\ b.file_uuid = e.file_uuid
            /\ e.path = b.path /\ e.size = b.size /\ e.checksum = b.checksum
            /\ e.file_uuid \notin CurrentIds(res.sip)
                 => e.filename = b.filename
      /\ e.file_uuid \in CurrentIds(res.sip) =>
            \E i \in 1 .. Len(sip_files[res.sip]) :
               /\ sip_files[res.sip][i].file_id = e.file_uuid
               /\ e.filename
                    = "data/files" \o "/" \o sip_files[res.sip][i].filepath

\* a rename: the base records the content under another name
C4_Witness ==
  /\ PatchRecordAdded
  /\ \E e \in {x \in DataFileEntries(NewRecord) : IsMarkedFetched(x)} :
       /\ e.file_uuid \in CurrentIds(res.sip)
       /\ \E b \in DataFileEntries(
                     sip_metadata[res.patch_of][bagit_metadata_type_name]) :
             b.file_uuid = e.file_uuid /\ b.filename # e.filename

(***************************************************************************)
(* Properties of BagItArchiver.create, read off its result: res.files is   *)
(* the returned list, res.written the <<filename, content>> writes made.   *)
(***************************************************************************)
DataFileNames == {"data/files" \o "/" \o p : p \in FilePaths}

WrittenNames == {res.written[i][1] : i \in 1 .. Len(res.written)}

WrittenContents == {res.written[i][2] : i \in 1 .. Len(res.written)}

FetchedEntries(doc) == {e \in DataFileEntries(doc) : IsMarkedFetched(e)}

StoredEntries(doc) == {e \in DataFileEntries(doc) : ~IsMarkedFetched(e)}

PatchCreateDone ==
  res.op = "create" /\ res.error = "none" /\ res.patch_of # NoSip

\* First half of C5 alone: no write of a create with patch_of carries the
\* bytes of a file that the manifest marks fetched.
C5_NoFetchedBytes ==
  PatchCreateDone =>
    \A e \in FetchedEntries(NewRecord) :
       FileBytes(e.file_uuid) \notin WrittenContents

\* C5: create with patch_of never copies the bytes of a fetched file; the data
\* files written are exactly the manifest's data-file entries not marked
\* fetched; every fetched entry is in the returned list and in fetch.txt only.
C5_WrittenAreStoredEntries ==
  PatchCreateDone =>
    /\ \A e \in FetchedEntries(NewRecord) :
         /\ FileBytes(e.file_uuid) \notin WrittenContents
         /\ \E i \in 1 .. Len(res.files) : res.files[i] = e
         /\ \E i \in 1 .. Len(NewRecord.bagitfiles) :
              NewRecord.bagitfiles[i].filename = "fetch.txt"
    /\ WrittenNames \cap DataFileNames
         = {e.filename : e \in StoredEntries(NewRecord)}

HasRecord(s) == bagit_metadata_type_name \in DOMAIN sip_metadata[s]

\* C6: a create that directly follows a successful create of the same SIP
\* succeeds, leaves the manifest record as it was and leaves the package
\* directory as it was (no file added, none changed).
C6_CreateTwice ==
  [][(res.op = "create" /\ res.error = "none"
        /\ res'.op = "create" /\ res'.sip = res.sip)
     => /\ res'.error = "none"
        /\ ~res'.created
        /\ sip_metadata' = sip_metadata
        /\ disk' = disk]_vars

C6_Witness ==
  /\ res.op = "create" /\ res.error = "none" /\ res.again
  /\ Len(res.written) > 0

\* a schema every document the archiver assembles validates against
AcceptsAll(schema) == schema \subseteq {"filename", "path", "size", "checksum"}


BaseLacksRecord(p) == p # NoSip /\ ~HasRecord(p)

\* C7: create_bagit_metadata for a SIP that already has a manifest record
\* ends with an error and leaves every record unchanged; the error is the
\* conflict raised by the insert unless the call failed before reaching it
\* (patch base without record, document rejected by the schema).
C7_SaveConflict ==
  [][(res'.op = "create_bagit_metadata" /\ HasRecord(res'.sip))
     => /\ res'.error \in {"TypeError", "ValidationError", "IntegrityError"}
        /\ res'.error = "TypeError" => BaseLacksRecord(res'.patch_of)
        /\ res'.error = "ValidationError" => ~AcceptsAll(bagit_schema)
        /\ sip_metadata' = sip_metadata]_vars

C7_Witness ==
  /\ res.op = "create_bagit_metadata" /\ res.error = "IntegrityError"
  /\ HasRecord(res.sip)

\* C8: the document is validated before it is persisted: a call that ends
\* with the validation error adds no manifest record, and every record a call
\* adds validates against the configured schema.
C8_ValidateBeforePersist ==
  [][(res'.op \in {"create_bagit_metadata", "create"})
     => /\ res'.error = "ValidationError" => sip_metadata' = sip_metadata
        /\ sip_metadata' # sip_metadata =>
             /\ res'.error = "none"
             /\ validate(sip_metadata'[res'.sip][bagit_metadata_type_name],
                          bagit_schema)]_vars

C8_Witness ==
  /\ res.op = "create_bagit_metadata" /\ res.error = "ValidationError"
  /\ ~HasRecord(res.sip)

\* C9 as stated: create with patch_of = P, P without a manifest record, fails
\* and writes neither a manifest record nor a file of the package.
C9_PatchWithoutBaseRecord ==
  [][(res'.op = "create" /\ BaseLacksRecord(res'.patch_of))
     => /\ res'.error # "none"
        /\ sip_metadata' = sip_metadata
        /\ disk' = disk]_vars

\* C9, for a SIP that has no manifest record of its own yet: create with
\* patch_of = P, P without a manifest record, ends with the TypeError and
\* writes neither a manifest record nor a file of the package.
C9_PatchWithoutBaseRecord_NoCache ==
  [][(res'.op = "create" /\ BaseLacksRecord(res'.patch_of)
        /\ ~HasRecord(res'.sip))
     => /\ res'.error = "TypeError"
        /\ sip_metadata' = sip_metadata
        /\ disk' = disk]_vars

C9_NoCache_Witness ==
  /\ res.op = "create" /\ res.error = "TypeError"
  /\ BaseLacksRecord(res.patch_of) /\ ~HasRecord(res.sip)

(***************************************************************************)
(* Properties of BaseArchiver.write_all_files, read off its result.        *)
(***************************************************************************)
\* the list the call works on: the argument, or get_all_files when empty
HasEntryWithoutKey(filesinfo) ==
  \E i \in 1 .. Len(filesinfo) :
     \A k \in {"file_uuid", "metadata_id", "content"} :
        k \notin DOMAIN filesinfo[i]

\* C10: write_all_files given a list with an entry that has none of the keys
\* file_uuid, metadata_id, content ends with the ValueError, writes no entry
\* of the list and sends no progress message.
C10_MissingKeyWritesNothing ==
  [][(res'.op = "write_all_files" /\ HasEntryWithoutKey(res'.filesinfo))
     => /\ res'.error = "ValueError"
        /\ disk' = disk
        /\ res'.written = <<>>
        /\ res'.events = <<>>]_vars

\* a valid entry precedes the entry without key
C10_Witness ==
  /\ res.op = "write_all_files" /\ res.error = "ValueError"
  /\ Len(res.filesinfo) >= 2
  /\ "file_uuid" \in DOMAIN res.filesinfo[1]
  /\ HasEntryWithoutKey(res.filesinfo)

\* the sum of the sizes of the first k entries of a list
RECURSIVE SizeOfFirst(_, _)
SizeOfFirst(filesinfo, k) ==
  IF k = 0 THEN 0 ELSE SizeOfFirst(filesinfo, k - 1) + filesinfo[k].size

\* C11: write_all_files over a list of N entries (res.files: the argument,
\* or the planned list when the argument is empty) sends one progress message
\* after each write, in list order; the k-th message reports copied_files = k,
\* copied_size = the sum of the sizes of the first k entries, total_files = N
\* and total_size = the sum of all sizes; a call that ends without exception
\* has sent exactly N messages, the last with copied_files = total_files and
\* copied_size = total_size.
C11_ProgressEvents ==
  res.op = "write_all_files" =>
    /\ Len(res.events) = Len(res.written)
    /\ Len(res.events) <= Len(res.files)
    /\ \A k \in 1 .. Len(res.events) :
         /\ res.events[k].copied_files = k
         /\ res.events[k].copied_size = SizeOfFirst(res.files, k)
         /\ res.events[k].total_files = Len(res.files)
         /\ res.events[k].total_size
              = SizeOfFirst(res.files, Len(res.files))
         /\ res.events[k].current_filename = res.files[k].filepath
         /\ res.events[k].current_filesize = res.files[k].size
         /\ res.written[k][1] = res.files[k].filepath
    /\ res.error = "none" =>
         /\ Len(res.events) = Len(res.files)
         /\ Len(res.files) > 0 =>
              /\ res.events[Len(res.files)].copied_files
                   = res.events[Len(res.files)].total_files
              /\ res.events[Len(res.files)].copied_size
                   = res.events[Len(res.files)].total_size

\* three entries of different sizes were written
C11_Witness ==
  /\ res.op = "write_all_files" /\ res.error = "none"
  /\ Len(res.events) = 3
  /\ res.events[1].copied_size < res.events[2].copied_size
  /\ res.events[2].copied_size < res.events[3].copied_size
  /\ res.events[3].copied_size = res.events[3].total_size

(***************************************************************************)
(* Properties of the tag files, read off the manifest record that a call   *)
(* has just added for res.sip.                                             *)
(***************************************************************************)
RecordAdded == res.created /\ res.op \in {"create_bagit_metadata", "create"}

\* the names of the tag files of a record, in the order of their generation
TagFileNames(doc) ==
  [i \in 1 .. Len(doc.bagitfiles) |-> doc.bagitfiles[i].filename]

HasFetched(doc) == FetchedEntries(doc) # {}

FetchFirst(doc) == IF HasFetched(doc) THEN <<"fetch.txt">> ELSE <<>>

\* C12 as stated: the tag files are generated in the order fetch.txt (only
\* when a fetched entry exists), bag-info.txt, manifest-md5.txt, bagit.txt,
\* tagmanifest-md5.txt.
C12_TagFileOrder_AsStated ==
  RecordAdded =>
    TagFileNames(NewRecord)
      = FetchFirst(NewRecord)
          \o <<"bag-info.txt", "manifest-md5.txt", "bagit.txt",
               "tagmanifest-md5.txt">>

\* C12, in the order of the code: the tag files are generated in the order
\* fetch.txt (only when a fetched entry exists), manifest-md5.txt, bagit.txt,
\* bag-info.txt, and tagmanifest-md5.txt last.
C12_TagFileOrder ==
  RecordAdded =>
    TagFileNames(NewRecord)
      = FetchFirst(NewRecord)
          \o <<"manifest-md5.txt", "bagit.txt", "bag-info.txt",
               "tagmanifest-md5.txt">>

\* a record with fetched entries, whose first tag file is fetch.txt
C12_Witness ==
  /\ RecordAdded /\ HasFetched(NewRecord)
  /\ Len(NewRecord.bagitfiles) = 5

\* the tag files generated before the last one
Preceding(doc) == SubSeq(doc.bagitfiles, 1, Len(doc.bagitfiles) - 1)

TagManifest(doc) == doc.bagitfiles[Len(doc.bagitfiles)]

\* C13: the tag manifest has exactly one line per tag file generated before
\* it (manifest-md5.txt, bagit.txt, bag-info.txt, and fetch.txt only when a
\* fetched entry exists), no line for itself, and each line carries the md5 of
\* the content of its tag file, which is the content create writes.
C13_TagManifest ==
  RecordAdded =>
    /\ TagManifest(NewRecord).filename = "tagmanifest-md5.txt"
    /\ Len(Preceding(NewRecord)) = IF HasFetched(NewRecord) THEN 4 ELSE 3
    /\ {Preceding(NewRecord)[i].filename :
          i \in 1 .. Len(Preceding(NewRecord))}
         = {"manifest-md5.txt", "bagit.txt", "bag-info.txt"}
             \cup (IF HasFetched(NewRecord) THEN {"fetch.txt"} ELSE {})
    /\ TagManifest(NewRecord).content
         = JoinLines([i \in 1 .. Len(Preceding(NewRecord)) |->
              Md5Hex(Preceding(NewRecord)[i].content) \o " "
                \o Preceding(NewRecord)[i].filename])
    /\ res.op = "create" =>
         \A i \in 1 .. Len(Preceding(NewRecord)) :
            disk[res.sip][Preceding(NewRecord)[i].filename]
              = Preceding(NewRecord)[i].content

\* a create of a patch package: four lines, fetch.txt among them
C13_Witness ==
  /\ RecordAdded /\ res.op = "create" /\ HasFetched(NewRecord)
  /\ Len(Preceding(NewRecord)) = 4
  /\ "tagmanifest-md5.txt" \in DOMAIN disk[res.sip]

\* the tag file of a record with the given name
TagFile(doc, name) ==
  doc.bagitfiles[CHOOSE i \in 1 .. Len(doc.bagitfiles) :
                   doc.bagitfiles[i].filename = name]

\* the hex part of a checksum 'md5:<hex>'
HexOf(checksum) == checksum[Len(checksum)]

\* C14: the payload manifest has exactly one line '<hex> <filename>' per entry
\* of the record's data-file list, fetched entries included, in the order of
\* that list.
C14_PayloadManifest ==
  RecordAdded =>
    TagFile(NewRecord, "manifest-md5.txt").content
      = JoinLines([i \in 1 .. Len(NewRecord.datafiles) |->
           HexOf(NewRecord.datafiles[i].checksum) \o " "
             \o NewRecord.datafiles[i].filename])

\* a patch record with a fetched entry and a stored file
C14_Witness ==
  /\ RecordAdded /\ HasFetched(NewRecord)
  /\ StoredEntries(NewRecord) # {}
  /\ Len(NewRecord.datafiles) >= 2

\* the content of bag-info.txt for a list of payload entries
BagInfoOver(entries, now) ==
  "Bagging-Date: " \o now \o "\n" \o "Payload-Oxum: "
    \o ToString(SizeOfFirst(entries, Len(entries))) \o "."
    \o ToString(Len(entries))

NotMarkedFetched(e) == ~IsMarkedFetched(e)

\* What the code computes: Payload-Oxum counts the entries of the record that
\* are not fetched (the list BaseArchiver.create returned).
C15_PayloadOxumNotFetched ==
  RecordAdded =>
    \E now \in Dates :
       TagFile(NewRecord, "bag-info.txt").content
         = BagInfoOver(SelectSeq(NewRecord.datafiles, NotMarkedFetched), now)

\* C15: Payload-Oxum is '<totalBytes>.<fileCount>' over the payload entries
\* of the package, which for a patch package are the entries listed in the
\* payload manifest, fetched and stored.
C15_PayloadOxum ==
  RecordAdded =>
    \E now \in Dates :
       TagFile(NewRecord, "bag-info.txt").content
         = BagInfoOver(NewRecord.datafiles, now)

(***************************************************************************)
(* Properties of the planning phase of the base archiver, read off the     *)
(* list get_all_files returned (res.files) and off the writes of a         *)
(* write_all_files called without argument.                                *)
(***************************************************************************)
\* the metadata types of the entries of a file-info list, one per entry
PlannedMetadata(files) ==
  LET IsMetadata(fi) == "metadata_id" \in DOMAIN fi
      sel == SelectSeq(files, IsMetadata)
  IN [i \in 1 .. Len(sel) |-> sel[i].metadata_id]

AllowListed(s) ==
  {type \in DOMAIN sip_metadata[s] : type \in {"json-test", "marcxml-test"}}

NotAllowListed(s) == DOMAIN sip_metadata[s] \ AllowListed(s)

MetadataPath(type) == "metadata/" \o type \o "." \o TypeFormat(type)

Planned == res.op = "get_all_files"

WrittenAsPlanned ==
  res.op = "write_all_files" /\ res.filesinfo = <<>> /\ res.error = "none"

\* C16: a metadata row of the SIP has an entry in the planned list, and is
\* written by write_all_files(), if and only if its type name is in
\* SIPSTORE_ARCHIVER_METADATA_TYPES; a row of type 'bagit' or of another type
\* that is not listed has no entry and is not written.
C16_AllowListedMetadata ==
  /\ Planned =>
       /\ {PlannedMetadata(res.files)[i] :
             i \in 1 .. Len(PlannedMetadata(res.files))} = AllowListed(res.sip)
       /\ Len(PlannedMetadata(res.files)) = Cardinality(AllowListed(res.sip))
  /\ WrittenAsPlanned =>
       /\ \A type \in AllowListed(res.sip) :
            /\ MetadataPath(type) \in WrittenNames
            /\ MetadataPath(type) \in DOMAIN disk[res.sip]
       /\ \A type \in NotAllowListed(res.sip) :
            /\ MetadataPath(type) \notin WrittenNames
            /\ MetadataPath(type) \notin DOMAIN disk[res.sip]

\* a SIP with a listed row and a 'bagit' row has been written
C16_Witness ==
  /\ WrittenAsPlanned
  /\ AllowListed(res.sip) # {}
  /\ "bagit" \in DOMAIN sip_metadata[res.sip]
  /\ Len(res.written) > 0

IsTextEntry(fi) ==
  "file_uuid" \notin DOMAIN fi
    /\ ("metadata_id" \in DOMAIN fi \/ "content" \in DOMAIN fi)

WrittenTextEntries ==
  {k \in 1 .. Len(res.written) : IsTextEntry(res.files[k])}

\* What the code computes: the recorded checksum is the md5 of the bytes
\* written, and the recorded size is the number of characters of the text.
C18_ChecksumOfWrittenBytes ==
  res.op = "write_all_files" =>
    \A k \in WrittenTextEntries :
       res.files[k].checksum = <<"md5", ":", Md5Hex(res.written[k][2])>>

\* C18: for every metadata entry and every generated text file the recorded
\* size is the number of bytes written (the UTF-8 encoding of the text) and
\* the recorded checksum is the md5 of those bytes, also for a text with
\* characters outside ASCII.
C18_SizeAndChecksumOfWrittenBytes ==
  res.op = "write_all_files" =>
    \A k \in WrittenTextEntries :
       /\ res.files[k].size = Len(res.written[k][2])
       /\ res.files[k].checksum = <<"md5", ":", Md5Hex(res.written[k][2])>>

(***************************************************************************)
(* Round trip of the payload manifest after BagItArchiver.create: the      *)
(* entries of the record are the lines of manifest-md5.txt; disk[res.sip]  *)
(* is the package directory.                                               *)
(***************************************************************************)
CreateDone == res.op = "create" /\ res.error = "none"

PayloadEntries(doc) == {doc.datafiles[i] : i \in 1 .. Len(doc.datafiles)}

\* What holds: every payload entry that is not fetched has its file in the
\* package.
C19_StoredEntriesWritten ==
  CreateDone =>
    \A e \in {x \in PayloadEntries(NewRecord) : ~IsMarkedFetched(x)} :
       e.filename \in DOMAIN disk[res.sip]

\* C19: after a completed create, the checksum of every line of the payload
\* manifest is the md5 of the bytes of the file that the package holds at the
\* line's path.
C19_ManifestRoundTrip ==
  CreateDone =>
    \A e \in PayloadEntries(NewRecord) :
       e.filename \in DOMAIN disk[res.sip]
         => HexOf(e.checksum) = Md5Hex(disk[res.sip][e.filename])

(***************************************************************************)
(* Checksum parsing, stated on the text of the checksum rather than on     *)
(* its split: the positions of the colons and the text around them.        *)
(***************************************************************************)
Colons(checksum) == {i \in 1 .. Len(checksum) : checksum[i] = ":"}

RECURSIVE TextOf(_)
TextOf(tokens) == IF tokens = <<>> THEN "" ELSE Head(tokens) \o TextOf(Tail(tokens))

\* 'alg:hex' with alg the expected algorithm and exactly one colon
HasExpectedForm(checksum) ==
  /\ Cardinality(Colons(checksum)) = 1
  /\ \A k \in Colons(checksum) : TextOf(SubSeq(checksum, 1, k - 1)) = "md5"

HexPart(checksum) ==
  LET k == CHOOSE i \in Colons(checksum) : TRUE
  IN TextOf(SubSeq(checksum, k + 1, Len(checksum)))

\* the outcome of a call of _get_checksum
ParsedAsStated ==
  res.op = "_get_checksum" =>
    IF HasExpectedForm(res.checksum)
    THEN res.error = "none" /\ res.value = HexPart(res.checksum)
    ELSE res.error = "AttributeError"

GenerationDone == res.op \in {"create_bagit_metadata", "create"} /\ res.error = "none"

GenerationAborted == res.op \in {"create_bagit_metadata", "create"} /\ res.error = "AttributeError"

\* a completed generation leaves a record all of whose payload checksums parse
GeneratedOnlyParsed ==
  GenerationDone =>
    \A e \in PayloadEntries(NewRecord) : HasExpectedForm(e.checksum)

\* C20: _get_checksum returns the hex part of 'alg:hex' when alg is the
\* expected algorithm and the value has exactly one colon, and fails with
\* AttributeError otherwise; a generation of the manifest completes only if
\* every checksum of its payload entries parses, and one that ends with the
\* parse error adds no record and writes no file.
C20_ChecksumParsing ==
  [][/\ ParsedAsStated'
     /\ GeneratedOnlyParsed'
     /\ GenerationAborted' =>
          UNCHANGED <<sip_metadata, sip_metadata_rows, disk>>]_vars

\* reached: the archival of a SIP with a file whose checksum is not an md5
\* one ends with the parse error, after another SIP was bagged
C20_Witness ==
  /\ GenerationAborted
  /\ \E i \in 1 .. Len(sip_files[res.sip]) :
        ~HasExpectedForm(FileChecksum(sip_files[res.sip][i].file_id))
  /\ \E s \in SIPS : SIPMetadataExists(s, bagit_metadata_type_name)

\* reached: a parse that fails on a second colon after the expected prefix
C20_ParseFails ==
  /\ res.op = "_get_checksum" /\ res.error = "AttributeError"
  /\ Cardinality(Colons(res.checksum)) = 2
  /\ Head(res.checksum) = "md5"

\* reached: a parse that returns the hex part
C20_ParseReturns ==
  res.op = "_get_checksum" /\ res.error = "none" /\ res.value = "12"

(***************************************************************************)
(* Names under the secure formatter (SpecNames): res.files is the list     *)
(* get_all_files or write_all_files worked on, one data-file entry per     *)
(* SIPFile; disk[res.sip] is the package directory.                        *)
(***************************************************************************)
NamesPlanned == res.op \in {"get_all_files", "write_all_files"} /\ res.error = "none" /\ sipfile_name_formatter = "secure"

DataEntries(files) == {fi \in Entries(files) : "file_uuid" \in DOMAIN fi}

\* What holds: files attached to different content never share a name.
C21_DistinctContentDistinctNames ==
  NamesPlanned =>
    \A x, y \in DataEntries(res.files) :
       x.file_uuid # y.file_uuid => x.filename # y.filename

\* C21: under the secure formatter two files of one SIP with different
\* logical paths never get the same generated filename, and after
\* write_all_files the package holds one file per data-file entry.
C21_SecureNamesDistinct ==
  NamesPlanned =>
    /\ \A x, y \in DataEntries(res.files) :
          x.sipfilepath # y.sipfilepath => x.filename # y.filename
    /\ res.op = "write_all_files" =>
          Cardinality(DOMAIN disk[res.sip]) = Len(res.files)

(***************************************************************************)
(* chunks (SpecChunks): res.iterable and res.n are the arguments of the    *)
(* call, res.chunks the list of the pieces it yields.                      *)
(***************************************************************************)
ChunksOfList == res.op = "chunks" /\ "list" \in DOMAIN res.n

AllPositive(n) == \A i \in 1 .. Len(n) : n[i] > 0

\* the number of characters before the i-th piece taken from n
Before(n, i) == sum(SubSeq(n, 1, i - 1))

\* the sizes of n that are reached while input remains
Taken(iterable, n) == {i \in 1 .. Len(n) : Before(n, i) < Len(iterable)}

\* C22: for a list n of positive sizes the pieces are non-empty and
\* consecutive and their concatenation is the input; the i-th piece has
\* length n[i], cut short at the end of the input, for every size reached
\* while input remains, and one more piece holds the remainder when
\* sum(n) < len; the default sub-path of a SIP id is its first two
\* characters, the next two, and the rest.
C22_Chunks ==
  /\ (ChunksOfList /\ AllPositive(res.n.list)) =>
       LET s == res.iterable
           n == res.n.list
           out == res.chunks
           taken == Cardinality(Taken(s, n))
       IN /\ TextOf(out) = s
          /\ \A k \in 1 .. Len(out) : out[k] # ""
          /\ Len(out) = taken + (IF sum(n) < Len(s) THEN 1 ELSE 0)
          /\ \A k \in 1 .. taken :
                Len(out[k]) = Min(n[k], Len(s) - Before(n, k))
          /\ sum(n) < Len(s) => Len(out[Len(out)]) = Len(s) - sum(n)
  /\ res.op = "default_archive_directory_builder" =>
       res.chunks = <<SubSeq(res.iterable, 1, 2), SubSeq(res.iterable, 3, 4),
                      SubSeq(res.iterable, 5, Len(res.iterable))>>

\* reached: sizes that leave a remainder, and sizes that outrun the input
C22_Witness ==
  /\ ChunksOfList /\ AllPositive(res.n.list)
  /\ res.iterable = "abab" /\ res.n.list = <<1, 2>>
  /\ res.chunks = <<"a", "ba", "b">>

C22_WitnessShort ==
  /\ ChunksOfList /\ res.iterable = "ab" /\ res.n.list = <<1, 2>>
  /\ res.chunks = <<"a", "b">>

C22_WitnessSubpath ==
  /\ res.op = "default_archive_directory_builder"
  /\ res.chunks = <<"ab", "cd", "0000-1111-2222-3333-444455556666">>

(***************************************************************************)
(* SIP.create (SpecCreate): res.filesinfo and res.n are the files and the  *)
(* metadata types of the call, res.events the signals it sent.             *)
(***************************************************************************)
SIPRows == {s \in SIPS : sip_table[s] # None}

NumFileRows == SumOver(SIPS, [s \in SIPS |-> Len(sip_files[s])])

NumMetadataRows == SumOver(SIPS, [s \in SIPS |-> Cardinality(DOMAIN sip_metadata[s])])

\* C23: a SIP.create that returns has added one SIP with one SIPFile per
\* file and one SIPMetadata per metadata entry, and has sent sipstore_created
\* once, the receiver finding all of them; a SIP.create that raises leaves
\* the three tables as they were and sends nothing.
C23_CreateAllOrNothing ==
  [][res'.op = "SIP.create" =>
       IF res'.error = "none"
       THEN /\ Cardinality(SIPRows') = Cardinality(SIPRows) + 1
            /\ SIPRows' = SIPRows \cup {res'.sip}
            /\ NumFileRows' = NumFileRows + Len(res'.filesinfo)
            /\ Len(sip_files'[res'.sip]) = Len(res'.filesinfo)
            /\ NumMetadataRows' = NumMetadataRows + Cardinality(res'.n)
            /\ DOMAIN sip_metadata'[res'.sip] = res'.n
            /\ res'.events = <<[signal |-> "sipstore_created",
                                sender |-> res'.sip,
                                files |-> Len(res'.filesinfo),
                                metadata |-> Cardinality(res'.n)]>>
       ELSE /\ UNCHANGED <<sip_table, sip_files, sip_metadata,
                           sip_metadata_rows>>
            /\ res'.events = <<>>]_vars

\* reached: a second SIP created with two files and two metadata entries
C23_Witness ==
  /\ res.op = "SIP.create" /\ res.error = "none"
  /\ Cardinality(SIPRows) = 2
  /\ Len(res.filesinfo) = 2 /\ Cardinality(res.n) = 2
  /\ Len(res.events) = 1

\* reached: a create that fails on its metadata after its files were added
C23_WitnessFailure ==
  /\ res.op = "SIP.create" /\ res.error = "NoResultFound"
  /\ Len(res.filesinfo) = 2
  /\ Cardinality(SIPRows) = 1

(***************************************************************************)
(* Order of the writes of BagItArchiver.create: res.written is the         *)
(* sequence of <<path, content>> in the order written.                     *)
(***************************************************************************)
TagWrites(doc) == [i \in 1 .. Len(doc.bagitfiles) |-> <<doc.bagitfiles[i].filename, doc.bagitfiles[i].content>>]

NumPayloadWrites == Len(res.written) - Len(NewRecord.bagitfiles)

IsPayloadPath(path) == Len(path) > 5 /\ SubSeq(path, 1, 5) = "data/"

\* C24: the writes of a completed create are first the data and metadata
\* files, all under data/, and then the tag files, one write per tag file of
\* the manifest record, in the record's order and with the record's content.
C24_TagFilesLast ==
  CreateDone =>
    /\ NumPayloadWrites >= 0
    /\ \A i \in 1 .. NumPayloadWrites : IsPayloadPath(res.written[i][1])
    /\ SubSeq(res.written, NumPayloadWrites + 1, Len(res.written)) = TagWrites(NewRecord)
    /\ \A i \in 1 .. Len(NewRecord.bagitfiles) : ~IsPayloadPath(NewRecord.bagitfiles[i].filename)

\* reached: a patch package with fetch.txt and a data file
C24_Witness ==
  /\ CreateDone /\ HasFetched(NewRecord)
  /\ Len(NewRecord.bagitfiles) = 5
  /\ \E i \in 1 .. NumPayloadWrites :
        SubSeq(res.written[i][1], 1, 11) = "data/files/"

\* reached: a package with a data file and a metadata file
C24_WitnessMetadata ==
  /\ CreateDone
  /\ \E i, j \in 1 .. NumPayloadWrites :
        /\ SubSeq(res.written[i][1], 1, 11) = "data/files/"
        /\ SubSeq(res.written[j][1], 1, 14) = "data/metadata/"

(***************************************************************************)
(* A receiver that stops the archival (SpecCancel): status_receiver.at is  *)
(* the entry on whose message the receiver acts.                           *)
(***************************************************************************)
\* a call whose loop reaches the message on which the receiver raises
ReceiverRaised == res.op = "write_all_files" /\ status_receiver.how = "raise" /\ Len(res.events) >= status_receiver.at

C25_ReturnedValueIgnored ==
  /\ res.op = "write_all_files" /\ res.error = "none"
  /\ status_receiver.how = "return" /\ status_receiver.at = 1
  /\ Len(res.events) = 2

(***************************************************************************)
(* The files of the current SIP in the data-file list of a patch record.   *)
(***************************************************************************)
\* the positions of the record's data-file list that stand for SIPFile sf
EntriesOf(doc, sf) == {i \in 1 .. Len(doc.datafiles) : "file_uuid" \in DOMAIN doc.datafiles[i] /\ doc.datafiles[i].file_uuid = sf.file_id /\ doc.datafiles[i].filename = join(filesdir, sf.filepath)}

\* the positions of the record's data-file list with content id uuid
EntriesWithId(doc, uuid) == {i \in 1 .. Len(doc.datafiles) : "file_uuid" \in DOMAIN doc.datafiles[i] /\ doc.datafiles[i].file_uuid = uuid}

\* What holds: every content id attached to the current SIP has exactly one
\* entry in the record that a patch call adds.
C26_EveryContentOnce ==
  PatchRecordAdded =>
    \A uuid \in CurrentIds(res.sip) :
       Cardinality(EntriesWithId(NewRecord, uuid)) = 1

\* C26: in the record that a call with a patch base adds, every SIPFile of
\* the current SIP has exactly one data-file entry, with its content id and
\* under its path, fetched or stored.
C26_EveryFileOnce ==
  PatchRecordAdded =>
    \A i \in 1 .. Len(sip_files[res.sip]) :
       Cardinality(EntriesOf(NewRecord, sip_files[res.sip][i])) = 1

(***************************************************************************)
(* Chains of patches (SpecChain).                                          *)
(***************************************************************************)
ChainRecord(s) == sip_metadata[s][bagit_metadata_type_name]

Bagged == {s \in ChainSIPS : SIPMetadataExists(s, bagit_metadata_type_name)}

\* an entry of an earlier package that is stored there and that the fetched
\* entry e points to
IsSourceOf(e0, e) == ~IsMarkedFetched(e0) /\ e0.path = e.path /\ e0.file_uuid = e.file_uuid /\ e0.size = e.size /\ e0.checksum = e.checksum

\* C27: the path of every fetched entry of every manifest record is the path
\* of an entry that the record of an earlier SIP lists as stored, with the
\* same content id, size and checksum.
C27_FetchedFromStored ==
  \A s \in Bagged : \A e \in FetchedEntries(ChainRecord(s)) :
     \E q \in Bagged : q < s /\ \E e0 \in StoredEntries(ChainRecord(q)) : IsSourceOf(e0, e)

\* reached: SIP 3 patches SIP 2, and an entry it fetches is one that SIP 2
\* had fetched from SIP 1
C27_Witness ==
  /\ res.op = "create_bagit_metadata" /\ res.created
  /\ res.sip = 3 /\ res.patch_of = 2
  /\ \E e \in FetchedEntries(ChainRecord(3)) :
        /\ \E e2 \in FetchedEntries(ChainRecord(2)) : e2.path = e.path
        /\ \E e1 \in StoredEntries(ChainRecord(1)) : IsSourceOf(e1, e)
(***************************************************************************)
(* C28: a submission has at most one manifest record in every reachable    *)
(* state, also when two BagItArchiver.create calls on the same submission  *)
(* both read "no record" before either inserts one: at most one of them    *)
(* inserts a record.                                                       *)
(***************************************************************************)
RECURSIVE Occurrences(_, _)
Occurrences(seq, x) ==
  IF seq = <<>> THEN 0
  ELSE (IF Head(seq) = x THEN 1 ELSE 0) + Occurrences(Tail(seq), x)

\* the workers whose call on s read no record
ObservedNone(s) ==
  {w \in Workers : creating[w].sip = s /\ creating[w].observed = None}

C28_AtMostOneRecord ==
  \A s \in SIPS :
    /\ Occurrences(sip_metadata_rows[s], bagit_metadata_type_name) <= 1
    /\ Cardinality({w \in ObservedNone(s) : creating[w].inserted}) <= 1

\* both calls read no record; one inserted it, the other's insert was refused
C28_Witness ==
  \E s \in SIPS :
    /\ ObservedNone(s) = Workers
    /\ \E w \in Workers : creating[w].inserted
    /\ \E w \in Workers : creating[w].error = "IntegrityError"

(***************************************************************************)
(* C29: once a SIP has a manifest record, create on it never modifies the  *)
(* record and takes the files it writes and returns from the record alone: *)
(* the arguments patch_of and include_missing_files of the later call and  *)
(* the files attached after the record was made have no effect.            *)
(***************************************************************************)
\* a create that found the record of its SIP
CreateFromRecord == CreateDone /\ ~res.created

\* the names the record lists for writing: its payload entries that are not
\* fetched, and its tag files
RecordNames(doc) ==
  {e.filename : e \in {x \in PayloadEntries(doc) : ~IsMarkedFetched(x)}}
    \cup {doc.bagitfiles[i].filename : i \in 1 .. Len(doc.bagitfiles)}

\* What holds: create on a SIP that has a record leaves every record as it
\* is, whatever its arguments.
C29_RecordKept ==
  [][(res'.op = "create" /\ HasRecord(res'.sip))
       => /\ sip_metadata' = sip_metadata
          /\ sip_metadata_rows' = sip_metadata_rows
          /\ res'.error = "none" /\ ~res'.created]_vars

\* C29, the files: every file such a create writes, and every entry it
\* returns, is named by the record.
C29_FilesFromRecord ==
  CreateFromRecord =>
    /\ WrittenNames \subseteq RecordNames(NewRecord)
    /\ \A i \in 1 .. Len(res.files) :
         res.files[i].filename
           \in RecordNames(NewRecord)
                 \cup {e.filename : e \in PayloadEntries(NewRecord)}

(***************************************************************************)
(* C30: create_bagit_metadata, create and write_all_files leave the file   *)
(* associations of the SIP, its other metadata entries, its archivable and *)
(* archived flags and the manifest record of the patch base as they are;   *)
(* the only row they add is the manifest record of the SIP itself.         *)
(***************************************************************************)
ArchivalOps == {"create_bagit_metadata", "create", "write_all_files"}

\* the rows of SIP s after the step are those before it, with at most the
\* manifest record added when s is the SIP of the operation
RowsKept(s) ==
  /\ \A type \in DOMAIN sip_metadata[s] :
       /\ type \in DOMAIN sip_metadata'[s]
       /\ sip_metadata'[s][type] = sip_metadata[s][type]
  /\ (DOMAIN sip_metadata'[s]) \ (DOMAIN sip_metadata[s])
       \subseteq (IF s = res'.sip THEN {bagit_metadata_type_name} ELSE {})
  /\ \/ sip_metadata_rows'[s] = sip_metadata_rows[s]
     \/ /\ s = res'.sip
        /\ sip_metadata_rows'[s]
             = Append(sip_metadata_rows[s], bagit_metadata_type_name)

C30_ArchivalFrame ==
  [][res'.op \in ArchivalOps
       => /\ sip_files' = sip_files
          /\ sip_table' = sip_table
          /\ \A s \in SIPS : RowsKept(s)]_vars

\* a patch package was made for a SIP that has another metadata entry and
\* whose flags are set, against a base that has its record
C30_Witness ==
  /\ res.op = "create" /\ res.error = "none" /\ res.created
  /\ res.patch_of # NoSip /\ HasRecord(res.patch_of)
  /\ DOMAIN sip_metadata[res.sip] # {bagit_metadata_type_name}
  /\ sip_table[res.sip].archived /\ sip_table[res.sip].archivable
  /\ Len(res.written) > 0

\* write_all_files wrote the files of a SIP
C30_WitnessWrite ==
  /\ res.op = "write_all_files" /\ res.error = "none"
  /\ Len(res.written) > 0
  /\ ~sip_table[res.sip].archived

====
